---- MODULE Spec2Model ----
(***************************************************************************)
(* Report categorization and windowing engine of the Jira MCP servers.     *)
(*                                                                         *)
(* Three server variants categorize issues:                                *)
(*   "word"        src/unnamed/part_000          buildReport               *)
(*   "standalone"  src/unnamed/part_001:285-981  categorizeIssues          *)
(*   "tavant"      src/unnamed/part_001:983-1838 categorizeIssues          *)
(*                                                                         *)
(* Time is counted in ticks; one day is DayTicks ticks.  A Date object is  *)
(* its tick count; an ISO date string "YYYY-MM-DD" is its day number;      *)
(* null is NoDate and an Invalid Date is NaN.                              *)
(***************************************************************************)
EXTENDS Integers, Sequences, FiniteSets, TLC

VARIABLES pc, server, entry, args, clock, now, startDate, endDate,
          fetched, issues, catNow, buckets, report, files, riskData,
          response, fetches,
          builds, storeOp, adf, text, rpcRequest, rpcResponse

vars == <<pc, server, entry, args, clock, now, startDate, endDate,
          fetched, issues, catNow, buckets, report, files, riskData,
          response, fetches,
          builds, storeOp, adf, text, rpcRequest, rpcResponse>>

\* the report requests in flight side by side, the last request to the
\* risk store, the rich-text document and the JSON-RPC exchange: state of
\* the operations modelled further below
restVars == <<builds, storeOp, adf, text, rpcRequest, rpcResponse>>

pureVars == <<adf, text, rpcRequest, rpcResponse>>

\* the single request served through pc, server, ..., fetches
requestVars == <<pc, server, entry, args, now, startDate, endDate,
                 fetched, issues, catNow, buckets, report, response, fetches>>

NoBuilds == <<>>
NoStoreOp == [op |-> "none"]
NoDoc == [type |-> "none"]
NoRpc == [jsonrpc |-> "none"]

RestIdle ==
  /\ builds = NoBuilds
  /\ storeOp = NoStoreOp
  /\ adf = NoDoc
  /\ text = <<>>
  /\ rpcRequest = NoRpc
  /\ rpcResponse = NoRpc

(***************************************************************************)
(* Bounds of the model                                                     *)
(***************************************************************************)
DayTicks == 2
Today == 20
MaxTicks == 1

(***************************************************************************)
(* Program constants                                                       *)
(***************************************************************************)
WeekDays == 7
BiweekDays == 14
NoDate == -1
NaN == -2
Undefined == -3

Truthy(v) == v # NoDate /\ v # Undefined

(***************************************************************************)
(* Date utilities                                                          *)
(***************************************************************************)
addDays(d, n) == d + n * DayTicks

parseDate(v) == IF Truthy(v) THEN v ELSE NoDate

\* d.toISOString().split("T")[0]: the UTC calendar day of the instant
formatDateISO(d) == IF d = NoDate THEN NoDate ELSE d \div DayTicks

\* new Date(v) for an ISO date string (UTC midnight), undefined or garbage
NewDate(v) == IF v = Undefined \/ v = NaN THEN NaN
              ELSE IF v = NoDate THEN 0
              ELSE v * DayTicks

\* relational operators on Dates: every comparison with NaN is false
DateGE(a, b) == a # NaN /\ b # NaN /\ a >= b
DateLE(a, b) == a # NaN /\ b # NaN /\ a <= b

\* the rank of String(k) in the collation order: the keys of the model are
\* issue keys "K-1" < "K-2", which sort before the string "undefined"
KeyRank(k) == IF k = Undefined THEN Cardinality({1, 2}) + 1 ELSE k

\* a.key.localeCompare(b.key); a key is modelled by its rank in that order
localeCompare(a, b) ==
  IF KeyRank(a) < KeyRank(b) THEN -1
  ELSE IF KeyRank(a) > KeyRank(b) THEN 1 ELSE 0

(***************************************************************************)
(* Array.prototype.sort (V8, arrays shorter than 32): the initial run is   *)
(* found and reversed when strictly descending, the rest is inserted by    *)
(* binary insertion.  c[i][j] is the comparator on elements i and j of the *)
(* array; the sort is computed on the sequence of indices.                 *)
(***************************************************************************)
Reverse(s) == [k \in 1..Len(s) |-> s[Len(s) + 1 - k]]

RECURSIVE RunEnd(_, _, _, _)
RunEnd(c, a, desc, k) ==
  IF k > Len(a) THEN Len(a)
  ELSE LET o == c[a[k]][a[k - 1]]
       IN IF (desc /\ o >= 0) \/ (~desc /\ o < 0) THEN k - 1
          ELSE RunEnd(c, a, desc, k + 1)

CountAndMakeRun(c, a) ==
  LET desc == c[a[2]][a[1]] < 0
      run  == RunEnd(c, a, desc, 3)
  IN <<IF desc THEN Reverse(SubSeq(a, 1, run)) \o SubSeq(a, run + 1, Len(a))
       ELSE a, run>>

RECURSIVE BinarySearch(_, _, _, _, _)
BinarySearch(c, a, pivot, left, right) ==
  IF left >= right THEN left
  ELSE LET mid == left + ((right - left) \div 2)
       IN IF c[pivot][a[mid]] < 0
          THEN BinarySearch(c, a, pivot, left, mid)
          ELSE BinarySearch(c, a, pivot, mid + 1, right)

RECURSIVE BinaryInsertionSort(_, _, _)
BinaryInsertionSort(c, a, start) ==
  IF start > Len(a) THEN a
  ELSE LET pivot == a[start]
           pos   == BinarySearch(c, a, pivot, 1, start)
           b     == SubSeq(a, 1, pos - 1) \o <<pivot>> \o
                    SubSeq(a, pos, start - 1) \o SubSeq(a, start + 1, Len(a))
       IN BinaryInsertionSort(c, b, start + 1)

SortIdx(c, n) ==
  LET a == [k \in 1..n |-> k]
  IN IF n < 2 THEN a
     ELSE LET r == CountAndMakeRun(c, a)
          IN BinaryInsertionSort(c, r[1], r[2] + 1)

ArraySort(s, cmp(_, _)) ==
  LET n == Len(s)
      c == [i \in 1..n |-> [j \in 1..n |-> cmp(s[i], s[j])]]
      p == SortIdx(c, n)
  IN [k \in 1..n |-> s[p[k]]]

ArrayFilter(s, test(_)) == SelectSeq(s, test)

(***************************************************************************)
(* A comparator that throws ends the sort with its exception.  t[i][j] is  *)
(* TRUE when the comparator throws on elements i and j; the operators      *)
(* below follow the comparator calls of SortIdx in their order and tell    *)
(* whether one of them throws.                                             *)
(***************************************************************************)
RECURSIVE RunEndThrows(_, _, _, _, _)
RunEndThrows(c, t, a, desc, k) ==
  IF k > Len(a) THEN FALSE
  ELSE IF t[a[k]][a[k - 1]] THEN TRUE
  ELSE LET o == c[a[k]][a[k - 1]]
       IN IF (desc /\ o >= 0) \/ (~desc /\ o < 0) THEN FALSE
          ELSE RunEndThrows(c, t, a, desc, k + 1)

RECURSIVE BinarySearchThrows(_, _, _, _, _, _)
BinarySearchThrows(c, t, a, pivot, left, right) ==
  IF left >= right THEN FALSE
  ELSE LET mid == left + ((right - left) \div 2)
       IN IF t[pivot][a[mid]] THEN TRUE
          ELSE IF c[pivot][a[mid]] < 0
               THEN BinarySearchThrows(c, t, a, pivot, left, mid)
               ELSE BinarySearchThrows(c, t, a, pivot, mid + 1, right)

RECURSIVE BinaryInsertionSortThrows(_, _, _, _)
BinaryInsertionSortThrows(c, t, a, start) ==
  IF start > Len(a) THEN FALSE
  ELSE IF BinarySearchThrows(c, t, a, a[start], 1, start) THEN TRUE
  ELSE LET pivot == a[start]
           pos   == BinarySearch(c, a, pivot, 1, start)
           b     == SubSeq(a, 1, pos - 1) \o <<pivot>> \o
                    SubSeq(a, pos, start - 1) \o SubSeq(a, start + 1, Len(a))
       IN BinaryInsertionSortThrows(c, t, b, start + 1)

SortIdxThrows(c, t, n) ==
  LET a == [k \in 1..n |-> k]
  IN IF n < 2 THEN FALSE
     ELSE IF t[a[2]][a[1]] THEN TRUE
     ELSE IF RunEndThrows(c, t, a, c[a[2]][a[1]] < 0, 3) THEN TRUE
     ELSE LET r == CountAndMakeRun(c, a)
          IN BinaryInsertionSortThrows(c, t, r[1], r[2] + 1)

ArraySortThrows(s, cmp(_, _), throws(_, _)) ==
  LET n == Len(s)
      c == [i \in 1..n |-> [j \in 1..n |-> cmp(s[i], s[j])]]
      t == [i \in 1..n |-> [j \in 1..n |-> throws(s[i], s[j])]]
  IN SortIdxThrows(c, t, n)

(***************************************************************************)
(* Issue records                                                           *)
(***************************************************************************)
Servers == {"word", "standalone", "tavant"}

Keys == {1, 2}
Descriptions == {"", "x"}
StatusCategories == {"new", "done"}
IssueTypes == {"Story", "Task", "Epic"}
Priorities == {"High", "Low"}

\* midnight of the model's "today"
Midnight == Today * DayTicks

\* resolutiondate is a timestamp, duedate a calendar date (UTC midnight)
ResolutionInstants == {addDays(Midnight, -10) + 1, Midnight + 1}
DueInstants == {addDays(Midnight, -1), addDays(Midnight, 10)}

\* a string-valued field that the Jira response leaves null
Absent == "null"

\* the fields of one issue as the Jira search returns them
JiraIssues ==
  [key : Keys, description : Descriptions, statusCategory : StatusCategories,
   issueType : IssueTypes, priority : Priorities, assignee : {"Ann"},
   resolutiondate : ResolutionInstants \cup {NoDate},
   duedate : DueInstants \cup {NoDate}]

\* f.assignee ? f.assignee.displayName : "Unassigned"
NormalizeAssignee(a) == IF a = Absent THEN "Unassigned" ELSE a

\* the mapping of a fetched issue to an IssueRecord, per server
NormalizeIssue(srv, f) ==
  [key |-> f.key, description |-> f.description,
   statusCategory |-> f.statusCategory, issueType |-> f.issueType,
   priority |-> IF f.priority = Absent THEN "Medium" ELSE f.priority,
   assignee |-> NormalizeAssignee(f.assignee),
   resolutionDate |-> IF srv = "standalone"
                      THEN formatDateISO(parseDate(f.resolutiondate))
                      ELSE parseDate(f.resolutiondate),
   dueDate |-> IF srv = "standalone"
               THEN formatDateISO(parseDate(f.duedate))
               ELSE parseDate(f.duedate)]

fetchJiraIssues(srv, l) == [k \in 1..Len(l) |-> NormalizeIssue(srv, l[k])]

DistinctKeys(l) == \A a, b \in 1..Len(l) : a # b => l[a].key # l[b].key

\* issue lists: any number of issues with pairwise distinct keys
ListsOver(universe) ==
  {l \in UNION {[1..n -> universe] : n \in 0..Cardinality(Keys)} :
     DistinctKeys(l)}

EmptyBuckets ==
  [accomplishments |-> <<>>, priorities |-> <<>>, risks |-> <<>>,
   milestones |-> <<>>, upcomingMilestones |-> <<>>]

(***************************************************************************)
(* Categorizers                                                            *)
(***************************************************************************)
\* a resolved issue taken for a done one
isDoneResolved(i) == i.statusCategory = "done" \/ Truthy(i.resolutionDate)

isDone(i) == i.statusCategory = "done"

isStory(i) == i.issueType = "Story"

isMilestone(i) == i.issueType = "Epic" \/ i.issueType = "Milestone"

windowDays(period) == IF period = "biweekly" THEN BiweekDays ELSE WeekDays

byKey(a, b) == localeCompare(a.key, b.key)

byDueDate(a, b) == a.dueDate - b.dueDate

valid(list) ==
  ArrayFilter(list, LAMBDA i :
    i.description # "" /\ (~isDone(i) \/ Truthy(i.resolutionDate)))

\* part_000 buildReport: the five lists it renders, for the instant n it reads
buildReport(list, period, n) ==
  LET pastStart == addDays(n, -windowDays(period))
      futureEnd == addDays(n, windowDays(period))
      v == valid(list)
      ms == ArraySort(ArrayFilter(v, isMilestone), byKey)
  IN [accomplishments |->
        ArraySort(ArrayFilter(v, LAMBDA i :
          isDone(i) /\ Truthy(i.resolutionDate) /\ i.resolutionDate >= pastStart),
          byKey),
      priorities |->
        ArraySort(ArrayFilter(v, LAMBDA i :
          ~isDone(i) /\ Truthy(i.dueDate) /\ i.dueDate <= futureEnd),
          byDueDate),
      risks |->
        ArraySort(ArrayFilter(v, LAMBDA i : isStory(i) /\ ~isDone(i)), byKey),
      milestones |-> ms,
      upcomingMilestones |->
        ArrayFilter(ms, LAMBDA i : Truthy(i.dueDate) /\ i.dueDate <= futureEnd)]

\* a.key.localeCompare(...) on a record without key is a TypeError
byKeyThrows(a, b) == a.key = Undefined

\* buildReport ends with the exception of the first sort whose comparator
\* throws; no report text is returned then
buildReportThrows(list, period, n) ==
  LET pastStart == addDays(n, -windowDays(period))
      v == valid(list)
  IN \/ ArraySortThrows(ArrayFilter(v, LAMBDA i :
          isDone(i) /\ Truthy(i.resolutionDate) /\ i.resolutionDate >= pastStart),
          byKey, byKeyThrows)
     \/ ArraySortThrows(ArrayFilter(v, LAMBDA i : isStory(i) /\ ~isDone(i)),
          byKey, byKeyThrows)
     \/ ArraySortThrows(ArrayFilter(v, isMilestone), byKey, byKeyThrows)

byDueDateISO(a, b) == NewDate(a.dueDate) - NewDate(b.dueDate)

byDueDateUndatedLast(a, b) ==
  IF ~Truthy(a.dueDate) THEN 1
  ELSE IF ~Truthy(b.dueDate) THEN -1
  ELSE NewDate(a.dueDate) - NewDate(b.dueDate)

isMilestoneStandalone(i) ==
  i.issueType = "Epic" \/ i.issueType = "Story" \/ i.issueType = "Milestone"

\* standalone categorizeIssues: dates are ISO date strings, n is its clock read
categorizeIssuesStandalone(list, sd, ed, n) ==
  LET start == NewDate(sd)
      end   == NewDate(ed)
      ms == ArraySort(ArrayFilter(list, isMilestoneStandalone),
                      byDueDateUndatedLast)
  IN [accomplishments |->
        ArrayFilter(list, LAMBDA i :
          IF ~isDone(i) \/ ~Truthy(i.resolutionDate) THEN FALSE
          ELSE DateGE(NewDate(i.resolutionDate), start)
               /\ DateLE(NewDate(i.resolutionDate), n)),
      priorities |->
        ArraySort(ArrayFilter(list, LAMBDA i :
          IF isDone(i) THEN FALSE
          ELSE IF ~Truthy(i.dueDate) THEN FALSE
          ELSE DateLE(NewDate(i.dueDate), end)),
          byDueDateISO),
      risks |->
        ArrayFilter(list, LAMBDA i :
          ~isDone(i) /\ (i.priority = "Highest" \/ i.priority = "High")),
      milestones |-> ms,
      upcomingMilestones |->
        ArrayFilter(ms, LAMBDA i :
          IF ~Truthy(i.dueDate) THEN FALSE
          ELSE DateGE(NewDate(i.dueDate), n) /\ DateLE(NewDate(i.dueDate), end))]

isStoryTavant(i) == i.issueType = "Story" \/ i.issueType = "Task"

isMilestoneTavant(i) ==
  i.issueType = "Epic" \/ i.issueType = "Milestone" \/ i.issueType = "Story"

byDueDateThenKey(a, b) ==
  IF Truthy(a.dueDate) /\ Truthy(b.dueDate) THEN a.dueDate - b.dueDate
  ELSE localeCompare(a.key, b.key)

byDueDateThenKeyThrows(a, b) ==
  ~(Truthy(a.dueDate) /\ Truthy(b.dueDate)) /\ a.key = Undefined

\* Tavant categorizeIssues ends with the exception of the first sort whose
\* comparator throws
categorizeIssuesTavantThrows(list, sd, ed, n) ==
  \/ ArraySortThrows(ArrayFilter(list, LAMBDA i :
       isDone(i) /\ Truthy(i.resolutionDate)
       /\ DateGE(i.resolutionDate, sd) /\ DateLE(i.resolutionDate, n)),
       byKey, byKeyThrows)
  \/ ArraySortThrows(ArrayFilter(list, LAMBDA i :
       ~isDone(i) /\ Truthy(i.dueDate) /\ DateLE(i.dueDate, ed)),
       byDueDateThenKey, byDueDateThenKeyThrows)
  \/ ArraySortThrows(ArrayFilter(list, LAMBDA i :
       isStoryTavant(i) /\ ~isDone(i)
       /\ (i.priority = "Highest" \/ i.priority = "High"
           \/ ~Truthy(i.dueDate))),
       byKey, byKeyThrows)
  \/ ArraySortThrows(ArrayFilter(list, isMilestoneTavant),
       byDueDateThenKey, byDueDateThenKeyThrows)

\* Tavant categorizeIssues: dates are Date objects, n is its clock read
categorizeIssuesTavant(list, sd, ed, n) ==
  LET ms == ArraySort(ArrayFilter(list, isMilestoneTavant), byDueDateThenKey)
  IN [accomplishments |->
        ArraySort(ArrayFilter(list, LAMBDA i :
          isDone(i) /\ Truthy(i.resolutionDate)
          /\ DateGE(i.resolutionDate, sd) /\ DateLE(i.resolutionDate, n)),
          byKey),
      priorities |->
        ArraySort(ArrayFilter(list, LAMBDA i :
          ~isDone(i) /\ Truthy(i.dueDate) /\ DateLE(i.dueDate, ed)),
          byDueDateThenKey),
      risks |->
        ArraySort(ArrayFilter(list, LAMBDA i :
          isStoryTavant(i) /\ ~isDone(i)
          /\ (i.priority = "Highest" \/ i.priority = "High"
              \/ ~Truthy(i.dueDate))),
          byKey),
      milestones |-> ms,
      upcomingMilestones |->
        ArrayFilter(ms, LAMBDA i :
          Truthy(i.dueDate) /\ DateGE(i.dueDate, n) /\ DateLE(i.dueDate, ed))]

(***************************************************************************)
(* The input array after a build.  Array.prototype.filter returns a new    *)
(* array and Array.prototype.sort sorts its receiver in place; in every    *)
(* variant each sort has the array a filter returned as its receiver, the  *)
(* renderers only read, and no record is assigned to.                      *)
(***************************************************************************)
\* a sort whose receiver is the input array itself
buildReportInputSorted(list, period, n) == ArraySort(list, byKey)

buildReportInput(list, period, n) == list

categorizeIssuesStandaloneInput(list, sd, ed, n) == list

categorizeIssuesTavantInput(list, sd, ed, n) == list

(***************************************************************************)
(* Rendering.  A rendered date is the text pattern with the day it shows;  *)
(* a row holds the cells that are read from the issue record (the status   *)
(* name and the browse link are copies of record fields and are left out). *)
(***************************************************************************)
\* an absent date rendered as an empty cell
fmtDateBlank(d) ==
  IF Truthy(d) THEN [text |-> "YYYY-MM-DD", day |-> d \div DayTicks]
  ELSE [text |-> "", day |-> NoDate]

\* part_000 fmtDate and Tavant formatDateISO: d ? ISO day of d : "N/A"
fmtDate(d) ==
  IF Truthy(d) THEN [text |-> "YYYY-MM-DD", day |-> d \div DayTicks]
  ELSE [text |-> "N/A", day |-> NoDate]

Take(s, n) == SubSeq(s, 1, IF Len(s) < n THEN Len(s) ELSE n)

Pad(rows, n, blank) == rows \o [k \in 1..(n - Len(rows)) |-> blank]

NoReport == [kind |-> "none"]

\* buildReport's section(title, list, render): nothing for an empty list
section(title, rows) ==
  IF Len(rows) = 0 THEN <<>> ELSE <<[title |-> title, rows |-> rows]>>

\* part_000 buildReport: the report text of the five lists
renderBuildReport(b) ==
  [kind |-> "docx",
   sections |->
     section("Key Accomplishments for Last Period",
       [k \in 1..Len(b.accomplishments) |->
          LET i == b.accomplishments[k]
          IN [key |-> i.key, description |-> i.description,
              owner |-> i.assignee]])
     \o section("Top Priorities for Next Period",
       [k \in 1..Len(b.priorities) |->
          LET i == b.priorities[k]
          IN [key |-> i.key, description |-> i.description,
              owner |-> i.assignee]])
     \o section("Key Risks, Issues & Action Items",
       [k \in 1..Len(b.risks) |->
          LET i == b.risks[k]
          IN [key |-> i.key, description |-> i.description,
              owner |-> i.assignee, targetDate |-> fmtDate(i.dueDate)]])
     \o section("Key Milestones & Status",
       [k \in 1..Len(b.milestones) |->
          LET i == b.milestones[k]
          IN [key |-> i.key, description |-> i.description,
              targetDate |-> fmtDate(i.dueDate)]])
     \o section("Upcoming Key Milestones",
       [k \in 1..Len(b.upcomingMilestones) |->
          LET i == b.upcomingMilestones[k]
          IN [key |-> i.key, description |-> i.description]])]

\* the risk store:
\* let riskData = {lastUpdated: null, filename: null, risks: [], headers: []}
EmptyRiskData ==
  [lastUpdated |-> NoDate, filename |-> Absent, risks |-> <<>>,
   headers |-> {}]

\* the rows of an uploaded sheet; a cell the sheet leaves out is ""
RiskRows ==
  {[Description |-> "r", Owner |-> "", TargetDate |-> "", Status |-> ""],
   [Description |-> "r", Owner |-> "Bo", TargetDate |-> "Q3",
    Status |-> "Done"]}

\* generateTavantPPTX: a row of the risk table for a row of the sheet
fileRiskRow(r) ==
  [description |-> r.Description,
   owner |-> IF r.Owner = "" THEN "TBD" ELSE r.Owner,
   targetDate |-> [text |-> IF r.TargetDate = "" THEN "N/A" ELSE r.TargetDate,
                   day |-> NoDate],
   status |-> IF r.Status = "" THEN "Open" ELSE r.Status]

BlankRow == [description |-> "", owner |-> ""]

\* a Jira risk row numbered by its own position among the Jira risks
jiraRiskNumberOwn(fileCount, r) == r

\* the '#' cell of the r-th Jira risk row: String(riskTableData.length),
\* the header row and the rows pushed so far
jiraRiskNumber(fileCount, r) == fileCount + r

\* generateTavantPPTX: the risk table below its header row; risk is the
\* risk store, or a table without rows when the call passes null
riskTable(risks, risk) ==
  LET fileRows == [k \in 1..Len(Take(risk.risks, 3)) |->
                     [num |-> k] @@ fileRiskRow(risk.risks[k])]
      allRisks == Take(risks, 3)
      jiraRows == [k \in 1..Len(Take(allRisks, 5 - Len(fileRows))) |->
                     LET i == allRisks[k]
                     IN [num |-> jiraRiskNumber(Len(fileRows), k),
                         description |-> i.description, owner |-> i.assignee,
                         targetDate |-> fmtDate(i.dueDate)]]
  IN Pad(fileRows \o jiraRows, 3, BlankRow)

\* part_001 generateTavantPPTX: the text and tables of the slides
generateTavantPPTX(b, risk) ==
  [kind |-> "pptx",
   accomplishments |->
     IF Len(b.accomplishments) = 0
     THEN <<[text |-> "No accomplishments recorded for this period."]>>
     ELSE [k \in 1..Len(Take(b.accomplishments, 5)) |->
             LET i == b.accomplishments[k]
             IN [key |-> i.key, description |-> i.description]],
   priorities |->
     Pad([k \in 1..Len(Take(b.priorities, 5)) |->
            LET i == b.priorities[k]
            IN [description |-> i.description, owner |-> i.assignee]],
         5, BlankRow),
   risks |-> riskTable(b.risks, risk),
   milestones |->
     Pad([k \in 1..Len(Take(b.milestones, 6)) |->
            LET i == b.milestones[k]
            IN [key |-> i.key, description |-> i.description,
                targetDate |-> fmtDate(i.dueDate)]],
         4, BlankRow),
   upcomingMilestones |->
     IF Len(b.upcomingMilestones) = 0
     THEN <<[text |-> "No upcoming milestones in this period"]>>
     ELSE [k \in 1..Len(Take(b.upcomingMilestones, 4)) |->
             LET i == b.upcomingMilestones[k]
             IN [key |-> i.key, description |-> i.description,
                 targetDate |-> fmtDate(i.dueDate), owner |-> i.assignee]]]

(***************************************************************************)
(* Window resolution                                                       *)
(***************************************************************************)
\* the weekly offsets pasted into the biweekly branch's end date
resolveWindowStandaloneCopied(period, sd, ed, n) ==
  IF period = "custom" THEN <<sd, ed>>
  ELSE IF period = "biweekly"
       THEN <<formatDateISO(addDays(n, -BiweekDays)),
              formatDateISO(addDays(n, WeekDays))>>
       ELSE <<formatDateISO(addDays(n, -WeekDays)),
              formatDateISO(addDays(n, WeekDays))>>

\* standalone entry points: the window is a pair of ISO date strings
resolveWindowStandalone(period, sd, ed, n) ==
  IF period = "custom" THEN <<sd, ed>>
  ELSE IF period = "biweekly"
       THEN <<formatDateISO(addDays(n, -BiweekDays)),
              formatDateISO(addDays(n, BiweekDays))>>
       ELSE <<formatDateISO(addDays(n, -WeekDays)),
              formatDateISO(addDays(n, WeekDays))>>

\* Tavant generate_status_report: the window is a pair of Date objects
resolveWindowTavant(period, sd, ed, n) ==
  IF period = "custom" THEN <<NewDate(sd), NewDate(ed)>>
  ELSE IF period = "biweekly"
       THEN <<addDays(n, -BiweekDays), addDays(n, BiweekDays)>>
       ELSE <<addDays(n, -WeekDays), addDays(n, WeekDays)>>

(***************************************************************************)
(* The categorizers applied to fetched issue lists                         *)
(***************************************************************************)
InitCat ==
  /\ pc = "call"
  /\ server \in Servers
  /\ entry = "none"
  /\ args = [period |-> "none", startDate |-> Undefined, endDate |-> Undefined]
  /\ clock = Midnight
  /\ now = NoDate
  /\ startDate = NoDate
  /\ endDate = NoDate
  /\ \E n \in 0..Cardinality(Keys) : fetched \in [1..n -> JiraIssues]
  /\ DistinctKeys(fetched)
  /\ issues = fetchJiraIssues(server, fetched)
  /\ catNow = NoDate
  /\ buckets = EmptyBuckets
  /\ report = NoReport
  /\ files = {}
  /\ riskData = EmptyRiskData
  /\ response = "none"
  /\ fetches = 0
  /\ RestIdle

BuildReportCall ==
  /\ pc = "call"
  /\ server = "word"
  /\ \E period \in {"weekly", "biweekly"} :
       /\ args' = [args EXCEPT !.period = period]
       /\ catNow' = clock
       /\ startDate' = addDays(clock, -windowDays(period))
       /\ endDate' = addDays(clock, windowDays(period))
       /\ IF buildReportThrows(issues, period, clock)
          THEN pc' = "threw" /\ UNCHANGED <<buckets, report>>
          ELSE /\ pc' = "return"
               /\ buckets' = buildReport(issues, period, clock)
               /\ report' = renderBuildReport(buildReport(issues, period,
                                                          clock))
       /\ issues' = buildReportInput(issues, period, clock)
  /\ UNCHANGED <<server, entry, clock, now, fetched, files, riskData,
                 response, fetches>>
  /\ UNCHANGED restVars

CategorizeStandaloneCall ==
  /\ pc = "call"
  /\ server = "standalone"
  /\ \E period \in {"weekly", "biweekly"} :
       LET w == resolveWindowStandalone(period, Undefined, Undefined, clock)
       IN /\ args' = [args EXCEPT !.period = period]
          /\ now' = clock
          /\ startDate' = w[1]
          /\ endDate' = w[2]
          /\ catNow' = clock
          /\ buckets' = categorizeIssuesStandalone(issues, w[1], w[2], clock)
          /\ issues' = categorizeIssuesStandaloneInput(issues, w[1], w[2],
                                                        clock)
  /\ pc' = "return"
  /\ UNCHANGED <<server, entry, clock, fetched, report, files, riskData,
                 response, fetches>>
  /\ UNCHANGED restVars

CategorizeTavantCall ==
  /\ pc = "call"
  /\ server = "tavant"
  /\ \E period \in {"weekly", "biweekly"} :
       LET w == resolveWindowTavant(period, Undefined, Undefined, clock)
       IN /\ args' = [args EXCEPT !.period = period]
          /\ now' = clock
          /\ startDate' = w[1]
          /\ endDate' = w[2]
          /\ catNow' = clock
          /\ IF categorizeIssuesTavantThrows(issues, w[1], w[2], clock)
             THEN pc' = "threw" /\ UNCHANGED <<buckets, report>>
             ELSE /\ pc' = "return"
                  /\ buckets' = categorizeIssuesTavant(issues, w[1], w[2],
                                                      clock)
                  /\ report' = generateTavantPPTX(
                                 categorizeIssuesTavant(issues, w[1], w[2],
                                                        clock), riskData)
          /\ issues' = categorizeIssuesTavantInput(issues, w[1], w[2], clock)
  /\ UNCHANGED <<server, entry, clock, fetched, files, riskData,
                 response, fetches>>
  /\ UNCHANGED restVars

NextCat ==
  \/ BuildReportCall
  \/ CategorizeStandaloneCall
  \/ CategorizeTavantCall

SpecCat == InitCat /\ [][NextCat]_vars

(***************************************************************************)
(* The categorizers applied to lists that hold malformed records: the      *)
(* fetchers copy issue.key as it is and map a missing statusCategory to "" *)
(***************************************************************************)
FetchedRecords ==
  [key : Keys \cup {Undefined}, description : {"x"},
   statusCategory : StatusCategories \cup {""},
   issueType : {"Story", "Epic"}, priority : {"High"}, assignee : {"Ann"},
   resolutiondate : {NoDate, Midnight + 1},
   duedate : {NoDate, addDays(Midnight, 1)}]

DistinctPresentKeys(l) ==
  \A a, b \in 1..Len(l) :
    (a # b /\ l[a].key = l[b].key) => l[a].key = Undefined

InitRec ==
  /\ pc = "call"
  /\ server \in Servers
  /\ entry = "none"
  /\ args = [period |-> "none", startDate |-> Undefined, endDate |-> Undefined]
  /\ clock = Midnight
  /\ now = NoDate
  /\ startDate = NoDate
  /\ endDate = NoDate
  /\ \E n \in 0..Cardinality(Keys) : fetched \in [1..n -> FetchedRecords]
  /\ DistinctPresentKeys(fetched)
  /\ issues = fetchJiraIssues(server, fetched)
  /\ catNow = NoDate
  /\ buckets = EmptyBuckets
  /\ report = NoReport
  /\ files = {}
  /\ riskData = EmptyRiskData
  /\ response = "none"
  /\ fetches = 0
  /\ RestIdle

SpecRec == InitRec /\ [][NextCat]_vars

(***************************************************************************)
(* The categorizers applied to the two-issue project of the scenario: A-1  *)
(* was resolved three days before the call, A-2 is due two days after it;  *)
(* both have an issue type that no variant names, and any priority.        *)
(***************************************************************************)
OtherIssueTypes == {"Bug", "Sub-task"}

ScenarioPriorities == {"High", "Medium"}

ScenarioA1(t) ==
  [key : {1}, description : {"x"}, statusCategory : {"done"},
   issueType : OtherIssueTypes, priority : ScenarioPriorities,
   assignee : {"Ann"},
   resolutiondate : {addDays(t, -3)}, duedate : {NoDate, addDays(t, 2)}]

ScenarioA2(t) ==
  [key : {2}, description : {"y"}, statusCategory : {"new"},
   issueType : OtherIssueTypes, priority : ScenarioPriorities,
   assignee : {"Ann"},
   resolutiondate : {NoDate}, duedate : {addDays(t, 2)}]

InitScn ==
  /\ pc = "call"
  /\ server \in Servers
  /\ entry = "none"
  /\ args = [period |-> "none", startDate |-> Undefined, endDate |-> Undefined]
  /\ clock \in Midnight..(Midnight + MaxTicks)
  /\ now = NoDate
  /\ startDate = NoDate
  /\ endDate = NoDate
  /\ \E a1 \in ScenarioA1(clock), a2 \in ScenarioA2(clock) :
       fetched \in {<<a1, a2>>, <<a2, a1>>}
  /\ issues = fetchJiraIssues(server, fetched)
  /\ catNow = NoDate
  /\ buckets = EmptyBuckets
  /\ report = NoReport
  /\ files = {}
  /\ riskData = EmptyRiskData
  /\ response = "none"
  /\ fetches = 0
  /\ RestIdle

SpecScn == InitScn /\ [][NextCat]_vars

(***************************************************************************)
(* The categorizers and renderers applied to issues whose optional fields  *)
(* (assignee, priority, resolutiondate, duedate) may be null in the Jira   *)
(* response                                                                *)
(***************************************************************************)
SparseIssues ==
  [key : Keys, description : {"x"}, statusCategory : StatusCategories,
   issueType : {"Story", "Epic"}, priority : {Absent, "High"},
   assignee : {Absent, "Ann"},
   resolutiondate : {NoDate, addDays(Midnight, -1)},
   duedate : {NoDate, addDays(Midnight, 1)}]

InitRender ==
  /\ pc = "call"
  /\ server \in Servers
  /\ entry = "none"
  /\ args = [period |-> "none", startDate |-> Undefined, endDate |-> Undefined]
  /\ clock = Midnight
  /\ now = NoDate
  /\ startDate = NoDate
  /\ endDate = NoDate
  /\ \E n \in 0..Cardinality(Keys) : fetched \in [1..n -> SparseIssues]
  /\ DistinctKeys(fetched)
  /\ issues = fetchJiraIssues(server, fetched)
  /\ catNow = NoDate
  /\ buckets = EmptyBuckets
  /\ report = NoReport
  /\ files = {}
  /\ riskData = EmptyRiskData
  /\ response = "none"
  /\ fetches = 0
  /\ RestIdle

SpecRender == InitRender /\ [][NextCat]_vars

(***************************************************************************)
(* Report requests: entry point, window resolution, fetch, categorization  *)
(***************************************************************************)
Entries ==
  {"word.generate_status_report",
   "standalone.get_status_report_data", "standalone.handleMcpTool",
   "standalone.rest_report_data",
   "tavant.generate_status_report", "tavant.rest_generate_report",
   "index.rest_generate_pptx"}

ServerOf(e) ==
  IF e = "word.generate_status_report" THEN "word"
  ELSE IF e \in {"tavant.generate_status_report", "tavant.rest_generate_report",
                 "tavant.upload_risk_file", "tavant.rest_upload_risk",
                 "tavant.rest_delete_risks"}
       THEN "tavant"
       ELSE IF e \in {"index.rest_generate_pptx", "index.generate_pptx_report",
                      "index.upload_risk_file", "index.rest_upload_risk",
                      "index.rest_delete_risks"}
            THEN "index"
            ELSE "standalone"

\* the servers that keep a risk store
StoreServers == {"tavant", "index"}

\* entry points registered with a zod schema: the SDK rejects other periods;
\* POST /api/generate-pptx has no period parameter
SchemaPeriods(e) ==
  IF e = "word.generate_status_report" THEN {"weekly", "biweekly"}
  ELSE IF e \in {"standalone.get_status_report_data",
                 "tavant.generate_status_report"}
       THEN {"weekly", "biweekly", "custom"}
       ELSE IF e = "index.rest_generate_pptx" THEN {"none"}
            ELSE {"weekly", "biweekly", "custom", "monthly"}

\* the custom dates a caller may send: ISO date strings, or nothing
CustomDays == {Today - 3, Today + 3}

NoArgs == [period |-> "none", startDate |-> Undefined, endDate |-> Undefined]

\* the arguments of a report request; the dates accompany a custom period
RequestArgs ==
  [period : {"custom"},
   startDate : CustomDays \cup {Undefined},
   endDate : CustomDays \cup {Undefined}]
  \cup [period : {"weekly", "biweekly", "monthly"},
        startDate : {Undefined}, endDate : {Undefined}]

ArgsOf(e) == IF ServerOf(e) = "index" THEN {NoArgs} ELSE RequestArgs

\* if (!args.startDate || !args.endDate) return {success: false, ...}
customDatesMissing(e, a) ==
  /\ e \in {"standalone.get_status_report_data", "standalone.handleMcpTool",
            "tavant.generate_status_report"}
  /\ a.period = "custom"
  /\ (~Truthy(a.startDate) \/ ~Truthy(a.endDate))

\* POST /api/generate-report: custom only when both dates are present
resolveWindowTavantRest(period, sd, ed, n) ==
  IF period = "custom" /\ Truthy(sd) /\ Truthy(ed)
  THEN <<NewDate(sd), NewDate(ed)>>
  ELSE IF period = "biweekly"
       THEN <<addDays(n, -BiweekDays), addDays(n, BiweekDays)>>
       ELSE <<addDays(n, -WeekDays), addDays(n, WeekDays)>>

resolveWindow(e, a, n) ==
  IF e = "tavant.rest_generate_report"
  THEN resolveWindowTavantRest(a.period, a.startDate, a.endDate, n)
  ELSE IF e = "tavant.generate_status_report"
       THEN resolveWindowTavant(a.period, a.startDate, a.endDate, n)
       ELSE resolveWindowStandalone(a.period, a.startDate, a.endDate, n)

\* the issues a project can hold while requests are served
ProjectIssues ==
  {f \in JiraIssues :
     /\ f.description = "x"
     /\ f.priority = "Low"
     /\ f.issueType \in {"Story", "Epic"}
     /\ f.resolutiondate \in {NoDate, Midnight + 1}
     /\ f.duedate \in {NoDate, addDays(Midnight, 10)}}

categorize(srv, list, period, sd, ed, n) ==
  IF srv = "word" THEN buildReport(list, period, n)
  ELSE IF srv = "tavant" THEN categorizeIssuesTavant(list, sd, ed, n)
       ELSE categorizeIssuesStandalone(list, sd, ed, n)

categorizeThrows(srv, list, period, sd, ed, n) ==
  IF srv = "word" THEN buildReportThrows(list, period, n)
  ELSE IF srv = "tavant" THEN categorizeIssuesTavantThrows(list, sd, ed, n)
       ELSE FALSE

\* the document an entry point renders from the buckets and the risk store
render(srv, b, risk) ==
  IF srv = "word" THEN renderBuildReport(b)
  ELSE IF srv = "tavant" THEN generateTavantPPTX(b, risk)
       ELSE NoReport

\* index.js fetchJiraProject: the issue list of the project summary
fetchJiraProject(l) ==
  [k \in 1..Len(l) |->
     [key |-> l[k].key, assignee |-> NormalizeAssignee(l[k].assignee),
      priority |-> IF l[k].priority = Absent THEN "None" ELSE l[k].priority,
      type |-> l[k].issueType]]

\* index.js generatePPTX: the totals and the risk table of the summary deck
generatePPTX(list, risk) ==
  [kind |-> "pptx", totalIssues |-> Len(list),
   riskCount |-> Len(risk.risks), risks |-> Take(risk.risks, 6)]

\* the name of the report file: <projectKey>_<period>_status_<Date.now()>,
\* status_report_<projectKey>_<Date.now()> in index.js
ReportFile(srv, period, t) ==
  [period |-> period, stamp |-> t,
   ext |-> IF srv = "word" THEN "docx" ELSE "pptx"]

\* the sheets an upload may carry
RiskFiles == {<<r>> : r \in RiskRows}

\* parseExcel: headers: Object.keys(data[0] || {})
parsedHeaders(rows) == IF Len(rows) = 0 THEN {} ELSE DOMAIN rows[1]

\* riskData = {lastUpdated: new Date().toISOString(),
\*             filename: parsed.filename, risks: parsed.data,
\*             headers: parsed.headers}
uploadedRiskData(t, name, rows) ==
  [lastUpdated |-> t, filename |-> name, risks |-> rows,
   headers |-> parsedHeaders(rows)]

Init ==
  /\ pc = "idle"
  /\ server = "none"
  /\ entry = "none"
  /\ args = [period |-> "none", startDate |-> Undefined, endDate |-> Undefined]
  /\ clock \in Midnight..(Midnight + MaxTicks)
  /\ now = NoDate
  /\ startDate = NoDate
  /\ endDate = NoDate
  /\ fetched = <<>>
  /\ issues = <<>>
  /\ catNow = NoDate
  /\ buckets = EmptyBuckets
  /\ report = NoReport
  /\ files = {}
  /\ riskData = EmptyRiskData
  /\ response = "none"
  /\ fetches = 0
  /\ RestIdle

\* a request arrives: the handler runs up to its first await (the fetch)
Receive ==
  /\ pc = "idle"
  /\ \E e \in Entries : \E a \in ArgsOf(e) :
       /\ entry' = e
       /\ server' = ServerOf(e)
       /\ args' = a
       /\ IF a.period \notin SchemaPeriods(e)
          THEN /\ pc' = "responded"
               /\ response' = "validation_error"
               /\ UNCHANGED <<now, startDate, endDate, fetches>>
          ELSE IF e \in {"word.generate_status_report",
                         "index.rest_generate_pptx"}
          THEN /\ pc' = "fetching"
               /\ fetches' = fetches + 1
               /\ UNCHANGED <<now, startDate, endDate, response>>
          ELSE /\ now' = clock
               /\ IF customDatesMissing(e, a)
                  THEN /\ pc' = "responded"
                       /\ response' = "validation_error"
                       /\ UNCHANGED <<startDate, endDate, fetches>>
                  ELSE /\ startDate' = resolveWindow(e, a, clock)[1]
                       /\ endDate' = resolveWindow(e, a, clock)[2]
                       /\ pc' = "fetching"
                       /\ fetches' = fetches + 1
                       /\ UNCHANGED response
  /\ UNCHANGED <<clock, fetched, issues, catNow, buckets, report, files,
                 riskData>>
  /\ UNCHANGED restVars

\* time passes while the fetch is awaited
Tick ==
  /\ pc = "fetching"
  /\ clock < Midnight + MaxTicks
  /\ clock' = clock + 1
  /\ UNCHANGED <<pc, server, entry, args, now, startDate, endDate,
                 fetched, issues, catNow, buckets, report, files, riskData,
                 response, fetches>>
  /\ UNCHANGED restVars

\* the fetch returns a list; the handler categorizes it, renders the
\* report, writes the report file and responds
FetchOk ==
  /\ pc = "fetching"
  /\ server # "index"
  /\ \E l \in ListsOver(ProjectIssues) :
       LET list == fetchJiraIssues(server, l)
           b == categorize(server, list, args.period,
                           startDate, endDate, clock)
       IN /\ fetched' = l
          /\ issues' = list
          /\ IF categorizeThrows(server, list, args.period,
                                 startDate, endDate, clock)
             THEN /\ response' = "error"
                  /\ UNCHANGED <<buckets, report, files>>
             ELSE /\ response' = "ok"
                  /\ buckets' = b
                  /\ report' = render(server, b, riskData)
                  /\ files' = IF server = "standalone" THEN files
                              ELSE files \cup
                                   {ReportFile(server, args.period, clock)}
  /\ catNow' = clock
  /\ IF server = "word"
     THEN /\ startDate' = addDays(clock, -windowDays(args.period))
          /\ endDate' = addDays(clock, windowDays(args.period))
     ELSE UNCHANGED <<startDate, endDate>>
  /\ pc' = "responded"
  /\ UNCHANGED <<server, entry, args, clock, now, riskData, fetches>>
  /\ UNCHANGED restVars

\* index.js POST /api/generate-pptx after the fetch: the summary deck is
\* written to /tmp and streamed to the caller
FetchOkSummary ==
  /\ pc = "fetching"
  /\ server = "index"
  /\ \E l \in ListsOver(ProjectIssues) :
       /\ fetched' = l
       /\ issues' = fetchJiraProject(l)
       /\ report' = generatePPTX(fetchJiraProject(l), riskData)
  /\ files' = files \cup {ReportFile(server, args.period, clock)}
  /\ response' = "ok"
  /\ pc' = "responded"
  /\ UNCHANGED <<server, entry, args, clock, now, startDate, endDate,
                 catNow, buckets, riskData, fetches>>
  /\ UNCHANGED restVars

\* the stream of the summary deck ends: fs.unlink(filepath)
StreamEnd ==
  /\ pc = "responded"
  /\ server = "index"
  /\ response = "ok"
  /\ files' = {}
  /\ pc' = "closed"
  /\ UNCHANGED <<server, entry, args, clock, now, startDate, endDate,
                 fetched, issues, catNow, buckets, report, riskData,
                 response, fetches>>
  /\ UNCHANGED restVars

\* a failed fetch that is attempted once more before the error is answered
FetchFailAfterRetry ==
  /\ pc = "fetching"
  /\ fetches' = fetches + 1
  /\ response' = "error"
  /\ pc' = "responded"
  /\ UNCHANGED <<server, entry, args, clock, now, startDate, endDate,
                 fetched, issues, catNow, buckets, report, files, riskData>>
  /\ UNCHANGED restVars

\* the fetch fails with a transport error: the handler's catch answers it
FetchFail ==
  /\ pc = "fetching"
  /\ response' = "error"
  /\ pc' = "responded"
  /\ UNCHANGED <<server, entry, args, clock, now, startDate, endDate,
                 fetched, issues, catNow, buckets, report, files, riskData,
                 fetches>>
  /\ UNCHANGED restVars

\* POST /api/upload-risk and upload_risk_file while a report request waits
\* for its fetch: a sheet that parses replaces the risk store
UploadRisk ==
  /\ pc = "fetching"
  /\ server \in StoreServers
  /\ \E rows \in RiskFiles :
       riskData' = uploadedRiskData(clock, "risk.xlsx", rows)
  /\ UNCHANGED <<pc, server, entry, args, clock, now, startDate, endDate,
                 fetched, issues, catNow, buckets, report, files,
                 response, fetches>>
  /\ UNCHANGED restVars

\* DELETE /api/risks while a report request waits for its fetch
ClearRisks ==
  /\ pc = "fetching"
  /\ server \in StoreServers
  /\ riskData' = EmptyRiskData
  /\ UNCHANGED <<pc, server, entry, args, clock, now, startDate, endDate,
                 fetched, issues, catNow, buckets, report, files,
                 response, fetches>>
  /\ UNCHANGED restVars

Next ==
  \/ Receive
  \/ Tick
  \/ FetchOk
  \/ FetchOkSummary
  \/ StreamEnd
  \/ FetchFail
  \/ UploadRisk
  \/ ClearRisks

Spec == Init /\ [][Next]_vars

(***************************************************************************)
(* Vocabulary of the properties                                            *)
(***************************************************************************)
\* a categorizer has run in this state
Built == catNow # NoDate

\* the instant a date field of an issue record or of the window denotes
InstantOf(v) == IF server = "standalone" THEN NewDate(v) ELSE v

WindowStart == InstantOf(startDate)
WindowEnd == InstantOf(endDate)

InBucket(b, i) == \E k \in 1..Len(b) : b[k] = i

IssueSet == {issues[k] : k \in 1..Len(issues)}

BucketSet(b) == {b[k] : k \in 1..Len(b)}

AllBuckets ==
  {buckets.accomplishments, buckets.priorities, buckets.risks,
   buckets.milestones, buckets.upcomingMilestones}

\* the inclusion rule of the specification
Eligible(i) ==
  /\ i.description # ""
  /\ (i.statusCategory = "done" => Truthy(i.resolutionDate))

(***************************************************************************)
(* C1: in every variant of the categorizer, every issue of the             *)
(* accomplishments bucket is an issue of the input list whose              *)
(* statusCategory is "done".                                               *)
(***************************************************************************)
C1_AccomplishmentsAreDone ==
  Built =>
    \A i \in BucketSet(buckets.accomplishments) :
      i \in IssueSet /\ i.statusCategory = "done"

\* a build over a list holding an issue that is not done but was resolved
\* inside the look-back window, next to a done issue that is reported
C1_Witness ==
  /\ Built
  /\ \E i \in IssueSet :
       /\ i.statusCategory # "done"
       /\ i.description # ""
       /\ Truthy(i.resolutionDate)
       /\ InstantOf(i.resolutionDate) >= WindowStart
       /\ InstantOf(i.resolutionDate) <= catNow
  /\ Len(buckets.accomplishments) > 0

(***************************************************************************)
(* C2: in every variant, every issue of upcomingMilestones is also in      *)
(* milestones and has a dueDate d with now <= d <= window.end.             *)
(***************************************************************************)
C2_UpcomingWithinNowAndEnd ==
  Built =>
    \A i \in BucketSet(buckets.upcomingMilestones) :
      /\ InBucket(buckets.milestones, i)
      /\ Truthy(i.dueDate)
      /\ catNow <= InstantOf(i.dueDate)
      /\ InstantOf(i.dueDate) <= WindowEnd

(***************************************************************************)
(* C3: the accomplishments bucket holds exactly the eligible issues that   *)
(* are done and whose resolutionDate r satisfies window.start <= r <= now. *)
(***************************************************************************)
C3_AccomplishmentsExact ==
  Built =>
    BucketSet(buckets.accomplishments) =
      {i \in IssueSet :
         /\ Eligible(i)
         /\ i.statusCategory = "done"
         /\ Truthy(i.resolutionDate)
         /\ WindowStart <= InstantOf(i.resolutionDate)
         /\ InstantOf(i.resolutionDate) <= catNow}

(***************************************************************************)
(* C4: the priorities bucket holds exactly the eligible issues that are    *)
(* not done and have a dueDate d with d <= window.end.                     *)
(***************************************************************************)
C4_PrioritiesExact ==
  Built =>
    BucketSet(buckets.priorities) =
      {i \in IssueSet :
         /\ Eligible(i)
         /\ i.statusCategory # "done"
         /\ Truthy(i.dueDate)
         /\ InstantOf(i.dueDate) <= WindowEnd}

(***************************************************************************)
(* C5: an issue that fails the inclusion rule (empty description, or done  *)
(* without a resolutionDate) is in none of the five buckets.               *)
(***************************************************************************)
C5_IneligibleInNoBucket ==
  Built =>
    \A i \in IssueSet :
      ~Eligible(i) => \A b \in AllBuckets : ~InBucket(b, i)

(***************************************************************************)
(* C6: the priorities bucket is ordered by dueDate ascending, and issues   *)
(* with the same dueDate are ordered by key ascending, whatever the order  *)
(* of the input list.                                                      *)
(***************************************************************************)
C6_PrioritiesByDueDateThenKey ==
  Built =>
    \A k \in 1..(Len(buckets.priorities) - 1) :
      LET a == buckets.priorities[k]
          b == buckets.priorities[k + 1]
      IN \/ InstantOf(a.dueDate) < InstantOf(b.dueDate)
         \/ /\ InstantOf(a.dueDate) = InstantOf(b.dueDate)
            /\ a.key <= b.key

(***************************************************************************)
(* Vocabulary of the properties about report requests                      *)
(***************************************************************************)
Answered == pc = "responded" /\ response = "ok"

\* the entry point builds a report for a period (the project summary of
\* index.js takes none)
TakesPeriod == SchemaPeriods(entry) # {"none"}

\* the instant the request takes as 'now' when it resolves its window
RequestNow == IF server = "word" THEN catNow ELSE now

WindowResolved == startDate # NoDate

PeriodDays == IF args.period = "biweekly" THEN BiweekDays ELSE WeekDays

\* UTC midnight of the calendar day of instant t
UtcDay(t) == t - (t % DayTicks)

DistinctSortKeys(l) ==
  \A a, b \in 1..Len(l) :
    a # b => l[a].key # l[b].key /\ l[a].dueDate # l[b].dueDate

Reorderings(l) ==
  {[k \in 1..Len(l) |-> l[p[k]]] :
     p \in {q \in [1..Len(l) -> 1..Len(l)] :
              \A a, b \in 1..Len(l) : a # b => q[a] # q[b]}}

CustomDatesReversed ==
  /\ args.period = "custom"
  /\ Truthy(args.startDate)
  /\ Truthy(args.endDate)
  /\ args.startDate > args.endDate

(***************************************************************************)
(* C7: the buckets of a report are a function of the issue list, the       *)
(* period (and custom range) and the request's 'now' alone: they are what  *)
(* the categorizer yields for that 'now', whenever the fetch returns, and  *)
(* a permutation of the issue list with distinct sort keys yields the same *)
(* buckets in the same order.                                              *)
(***************************************************************************)
C7_BucketsDependOnInputsOnly ==
  (Answered /\ TakesPeriod) =>
    /\ buckets = categorize(server, issues, args.period,
                            startDate, endDate, RequestNow)
    /\ DistinctSortKeys(issues) =>
         \A l \in Reorderings(issues) :
           categorize(server, l, args.period,
                      startDate, endDate, RequestNow) = buckets

(***************************************************************************)
(* C8 as claimed: the weekly window is exactly [now - 7 days, now + 7      *)
(* days] and the biweekly window exactly [now - 14 days, now + 14 days],   *)
(* in every entry point.                                                   *)
(***************************************************************************)
C8_WindowIsNowPlusMinusDays ==
  (WindowResolved /\ args.period \in {"weekly", "biweekly"}) =>
    /\ WindowStart = addDays(RequestNow, -PeriodDays)
    /\ WindowEnd = addDays(RequestNow, PeriodDays)

(***************************************************************************)
(* C8 amended: the weekly window spans exactly 14 days and the biweekly    *)
(* window exactly 28 days in every entry point; its bounds are now - N     *)
(* days and now + N days, exact in the word and Tavant servers and         *)
(* truncated to UTC midnight of their calendar day in the standalone       *)
(* server's entry points.                                                  *)
(***************************************************************************)
C8_WindowSpansWholeDays ==
  (WindowResolved /\ args.period \in {"weekly", "biweekly"}) =>
    /\ WindowEnd - WindowStart = 2 * PeriodDays * DayTicks
    /\ IF server = "standalone"
       THEN /\ WindowStart = UtcDay(addDays(RequestNow, -PeriodDays))
            /\ WindowEnd = UtcDay(addDays(RequestNow, PeriodDays))
       ELSE /\ WindowStart = addDays(RequestNow, -PeriodDays)
            /\ WindowEnd = addDays(RequestNow, PeriodDays)

\* a biweekly report answered by the standalone server for a request that
\* arrived in the middle of a day
C8_Witness ==
  /\ Answered
  /\ server = "standalone"
  /\ args.period = "biweekly"
  /\ now % DayTicks # 0
  /\ WindowStart # addDays(now, -BiweekDays)

(***************************************************************************)
(* C9: a request with period = custom whose start date is later than its   *)
(* end date ends with a validation error and without buckets (the case of  *)
(* a failed fetch aside).                                                  *)
(***************************************************************************)
C9_ReversedCustomRangeRejected ==
  (pc = "responded" /\ response # "error" /\ CustomDatesReversed) =>
    response = "validation_error" /\ ~Built

(***************************************************************************)
(* C10: a request with period = custom that lacks startDate or endDate is  *)
(* answered with a validation error by every entry point that accepts a    *)
(* custom period, and no issues are fetched or categorized for it.         *)
(***************************************************************************)
C10_MissingCustomDatesRejected ==
  ( /\ pc # "idle"
    /\ args.period = "custom"
    /\ "custom" \in SchemaPeriods(entry)
    /\ (~Truthy(args.startDate) \/ ~Truthy(args.endDate)) ) =>
    /\ pc = "responded"
    /\ response = "validation_error"
    /\ fetches = 0
    /\ ~Built

(***************************************************************************)
(* C11: a request whose period is not one of weekly, biweekly, custom is   *)
(* answered with a validation error; no default period is substituted: no  *)
(* window is resolved, no issues are fetched and no buckets are produced.  *)
(***************************************************************************)
C11_UnknownPeriodRejected ==
  ( /\ pc # "idle"
    /\ TakesPeriod
    /\ args.period \notin {"weekly", "biweekly", "custom"} ) =>
    /\ pc = "responded"
    /\ response = "validation_error"
    /\ ~WindowResolved
    /\ fetches = 0
    /\ ~Built

(***************************************************************************)
(* Vocabulary of the properties about malformed records                    *)
(***************************************************************************)
Malformed(i) ==
  \/ i.key = Undefined
  \/ i.statusCategory \notin {"new", "indeterminate", "done"}

WellFormedIssues == SelectSeq(issues, LAMBDA i : ~Malformed(i))

(***************************************************************************)
(* C12: a record without key, or whose statusCategory is none of new,      *)
(* indeterminate, done, is in none of the five buckets; the build          *)
(* completes, and its buckets are those of the list without the malformed  *)
(* records.                                                                *)
(***************************************************************************)
C12_MalformedRecordExcluded ==
  pc # "call" =>
    /\ pc = "return"
    /\ \A i \in IssueSet :
         Malformed(i) => \A b \in AllBuckets : ~InBucket(b, i)
    /\ buckets = categorize(server, WellFormedIssues, args.period,
                            startDate, endDate, catNow)

(***************************************************************************)
(* C13: a weekly report at now = T over exactly the two issues A-1 (done,  *)
(* resolved at T - 3 days) and A-2 (new, due at T + 2 days), both with a   *)
(* description and neither of a milestone or risk-bearing type, has        *)
(* accomplishments = [A-1], priorities = [A-2] and no risks, milestones or *)
(* upcoming milestones.                                                    *)
(***************************************************************************)
C13_ScenarioWeeklyTwoIssues ==
  (pc # "call" /\ args.period = "weekly") =>
    LET a1 == CHOOSE i \in IssueSet : i.key = 1
        a2 == CHOOSE i \in IssueSet : i.key = 2
    IN /\ pc = "return"
       /\ buckets.accomplishments = <<a1>>
       /\ buckets.priorities = <<a2>>
       /\ buckets.risks = <<>>
       /\ buckets.milestones = <<>>
       /\ buckets.upcomingMilestones = <<>>

C15_AccomplishmentsAndRisksByKey ==
  Built =>
    \A b \in {buckets.accomplishments, buckets.risks} :
      \A k \in 1..(Len(b) - 1) : b[k].key <= b[k + 1].key

(***************************************************************************)
(* C16: in the date-bearing milestones bucket of the standalone and Tavant *)
(* variants, and in upcomingMilestones, the issues with a dueDate come     *)
(* before those without, the dated issues are in non-decreasing dueDate    *)
(* order, and issues with equal or absent dueDate are ordered by key       *)
(* ascending.                                                              *)
(***************************************************************************)
DatedFirstThenKey(b) ==
  \A k \in 1..(Len(b) - 1) :
    LET x == b[k]
        y == b[k + 1]
    IN \/ Truthy(x.dueDate) /\ ~Truthy(y.dueDate)
       \/ /\ Truthy(x.dueDate) /\ Truthy(y.dueDate)
          /\ InstantOf(x.dueDate) < InstantOf(y.dueDate)
       \/ /\ Truthy(x.dueDate) = Truthy(y.dueDate)
          /\ Truthy(x.dueDate) => InstantOf(x.dueDate) = InstantOf(y.dueDate)
          /\ x.key <= y.key

C16_MilestonesDatedFirstThenKey ==
  (Built /\ server # "word") =>
    /\ DatedFirstThenKey(buckets.milestones)
    /\ DatedFirstThenKey(buckets.upcomingMilestones)

(***************************************************************************)
(* C17: every issue of the risks bucket is not done and is a Story, or, in *)
(* the priority-driven variant, a Story or Task that has priority High or  *)
(* Highest or no dueDate; no variant places an issue of another issueType  *)
(* in risks.                                                               *)
(***************************************************************************)
C17_RisksAreOpenStories ==
  Built =>
    \A i \in BucketSet(buckets.risks) :
      /\ i.statusCategory # "done"
      /\ \/ i.issueType = "Story"
         \/ /\ i.issueType \in {"Story", "Task"}
            /\ (i.priority \in {"High", "Highest"} \/ ~Truthy(i.dueDate))

(***************************************************************************)
(* C18: the milestones bucket holds exactly the eligible issues whose      *)
(* issueType is Epic or Milestone (or Story, in the broadened variant of   *)
(* the standalone and Tavant servers), whatever the window, 'now', their   *)
(* statusCategory and their dueDate.                                       *)
(***************************************************************************)
MilestoneType(i) ==
  \/ i.issueType \in {"Epic", "Milestone"}
  \/ server # "word" /\ i.issueType = "Story"

C18_MilestonesExact ==
  Built =>
    BucketSet(buckets.milestones) =
      {i \in IssueSet : Eligible(i) /\ MilestoneType(i)}

(***************************************************************************)
(* Vocabulary of the properties about rendering                            *)
(***************************************************************************)
BucketNames ==
  {"accomplishments", "priorities", "risks", "milestones",
   "upcomingMilestones"}

SectionTitle(name) ==
  CASE name = "accomplishments" -> "Key Accomplishments for Last Period"
    [] name = "priorities" -> "Top Priorities for Next Period"
    [] name = "risks" -> "Key Risks, Issues & Action Items"
    [] name = "milestones" -> "Key Milestones & Status"
    [] name = "upcomingMilestones" -> "Upcoming Key Milestones"

\* the rows the report shows for the entries of a bucket, in bucket order
RenderedRows(name) ==
  IF Len(buckets[name]) = 0 THEN <<>>
  ELSE IF report.kind = "docx"
  THEN LET ss == SelectSeq(report.sections,
                           LAMBDA x : x.title = SectionTitle(name))
       IN IF Len(ss) = 0 THEN <<>> ELSE ss[1].rows
  ELSE IF name = "risks"
  THEN LET off == Len(Take(riskData.risks, 3))
       IN SubSeq(report.risks, off + 1,
                 off + Len(Take(Take(buckets.risks, 3), 5 - off)))
  ELSE Take(report[name], Len(buckets[name]))

\* the issue of the Jira response that a record was made from
FetchedOf(i) == CHOOSE f \in {fetched[k] : k \in 1..Len(fetched)} : f.key = i.key

(***************************************************************************)
(* C19: rendering completes whatever optional fields (assignee, dueDate,   *)
(* resolutionDate, priority) the issues lack: every entry of every bucket  *)
(* gets its row, the owner cell of an issue without assignee reads         *)
(* "Unassigned" and the target date cell of an issue without dueDate reads *)
(* "N/A".                                                                  *)
(***************************************************************************)
C19_AbsentFieldsRendered ==
  (pc # "call" /\ server \in {"word", "tavant"}) =>
    /\ pc = "return"
    /\ report.kind \in {"docx", "pptx"}
    /\ \A name \in BucketNames :
         /\ Len(RenderedRows(name)) = Len(buckets[name])
         /\ \A k \in 1..Len(buckets[name]) :
              LET row == RenderedRows(name)[k]
                  f == FetchedOf(buckets[name][k])
              IN /\ ("owner" \in DOMAIN row /\ f.assignee = Absent)
                      => row.owner = "Unassigned"
                 /\ ("targetDate" \in DOMAIN row /\ f.duedate = NoDate)
                      => row.targetDate.text = "N/A"

\* a report with a risk row for an issue that has neither assignee, nor
\* priority, nor resolutiondate, nor duedate
C19_Witness ==
  /\ pc = "return"
  /\ server \in {"word", "tavant"}
  /\ \E k \in 1..Len(buckets.risks) :
       LET f == FetchedOf(buckets.risks[k])
           row == RenderedRows("risks")[k]
       IN /\ f.assignee = Absent
          /\ f.priority = Absent
          /\ f.resolutiondate = NoDate
          /\ f.duedate = NoDate
          /\ row.owner = "Unassigned"
          /\ row.targetDate.text = "N/A"

(***************************************************************************)
(* C20: when the issue fetch fails with a transport error, the report      *)
(* operation has made exactly one fetch attempt and makes no other, it     *)
(* answers with an error result, and the step produces no buckets, no      *)
(* report and no report file and leaves the risk store as it is.           *)
(***************************************************************************)
C20_FetchFailurePropagated ==
  [][(pc = "fetching" /\ pc' = "responded" /\ fetched' = fetched
      /\ response' # "ok") =>
       /\ response' = "error"
       /\ fetches = 1 /\ fetches' = 1
       /\ buckets' = EmptyBuckets /\ catNow' = NoDate
       /\ report' = NoReport
       /\ files' = {}
       /\ riskData' = riskData]_vars

\* a report request of a server with a loaded risk store whose fetch failed
C20_Witness ==
  /\ pc = "responded"
  /\ response = "error"
  /\ server \in StoreServers
  /\ riskData # EmptyRiskData
  /\ fetches = 1

(***************************************************************************)
(* Report requests served side by side by one server process.  A handler   *)
(* runs until its next await; the steps of different requests interleave   *)
(* at the awaits: the issue fetch, the serialisation of the document       *)
(* (pptx.write, Packer.toBuffer) and the streaming of the file.            *)
(***************************************************************************)
ParEntries ==
  {"word.generate_status_report", "standalone.handleMcpTool",
   "tavant.generate_status_report", "tavant.rest_generate_report",
   "index.rest_generate_pptx", "index.generate_pptx_report"}

ParEntriesOf(srv) == {e \in ParEntries : ServerOf(e) = srv}

\* the entry points registered as MCP tools with a zod schema
ToolEntries ==
  {"word.generate_status_report", "tavant.generate_status_report",
   "index.generate_pptx_report"}

\* the entry points that stream the report file back to the caller
StreamingEntries == {"tavant.rest_generate_report", "index.rest_generate_pptx"}

\* includeRisks as the caller sends it: true, false, or left out
IncludeRisksValues == {"true", "false", "undefined"}

\* z.boolean().optional().default(true) and args.includeRisks ? ... in the
\* tools; req.body.includeRisks !== false in the REST handlers
shouldIncludeRisksAlways(e, v) == TRUE

shouldIncludeRisks(e, v) ==
  IF e \in ToolEntries
  THEN (IF v = "undefined" THEN "true" ELSE v) = "true"
  ELSE v # "false"

\* the risks argument when the handler passes null
NullRisk == [risks |-> <<>>]

\* includeRisks ? riskData : null
riskArgument(e, v, store) ==
  IF shouldIncludeRisks(e, v) THEN store ELSE NullRisk

NoFile == [period |-> "none", stamp |-> NoDate, ext |-> "none"]

\* a file on disk: its path and the request whose document it holds
WrittenFile(path, k) == [path |-> path, by |-> k]

\* fs.writeFileSync(filepath, ...): the path is created or overwritten
writeFile(fs, path, k) ==
  {f \in fs : f.path # path} \cup {WrittenFile(path, k)}

\* fs.unlink(filepath)
unlink(fs, path) == {f \in fs : f.path # path}

IdleBuild(e, a) ==
  [pc |-> "idle", entry |-> e, args |-> a, now |-> NoDate,
   startDate |-> NoDate, endDate |-> NoDate, issues |-> <<>>,
   catNow |-> NoDate, buckets |-> EmptyBuckets, report |-> NoReport,
   file |-> NoFile, response |-> "none"]

\* the issues of the project while the requests are served
ParIssues ==
  {f \in ProjectIssues :
     \/ /\ f.key = 1
        /\ f.statusCategory = "done"
        /\ f.issueType = "Story"
        /\ f.resolutiondate = Midnight + 1
        /\ f.duedate = NoDate
     \/ /\ f.key = 2
        /\ f.statusCategory = "new"
        /\ f.issueType = "Story"
        /\ f.resolutiondate = NoDate
        /\ f.duedate = addDays(Midnight, 10)}

\* the invocation whose local variables (categorized and the arrays of
\* categorizeIssues) the handler of request k writes: one shared frame
InvocationOfShared(k) == 1

\* var declarations are local to the invocation of the handler
InvocationOf(k) == k

ParArgs(periods, includes) ==
  [period : periods, startDate : {Undefined}, endDate : {Undefined},
   includeRisks : includes]

ParArgsOf(e, periods, includes) ==
  IF ServerOf(e) = "index"
  THEN ParArgs({"none"}, includes)
  ELSE IF ServerOf(e) = "tavant" THEN ParArgs(periods, includes)
       ELSE ParArgs(periods, {"undefined"})

\* the single-request variables while requests are served side by side
RequestIdle ==
  /\ pc = "idle"
  /\ entry = "none"
  /\ args = NoArgs
  /\ now = NoDate
  /\ startDate = NoDate
  /\ endDate = NoDate
  /\ fetched = <<>>
  /\ issues = <<>>
  /\ catNow = NoDate
  /\ buckets = EmptyBuckets
  /\ report = NoReport
  /\ response = "none"
  /\ fetches = 0

\* two requests to one server process
InitPar ==
  /\ RequestIdle
  /\ server \in Servers \cup {"index"}
  /\ builds \in [1..2 -> UNION {{IdleBuild(e, a) :
                                   a \in ParArgsOf(e, {"weekly", "biweekly"},
                                                   {"undefined"})} :
                                e \in ParEntriesOf(server)}]
  /\ clock = Midnight
  /\ files = {}
  /\ riskData \in {EmptyRiskData}
                  \cup {uploadedRiskData(Midnight, "risk.xlsx", rows) :
                          rows \in RiskFiles}
  /\ storeOp = NoStoreOp
  /\ adf = NoDoc
  /\ text = <<>>
  /\ rpcRequest = NoRpc
  /\ rpcResponse = NoRpc

\* request k arrives: the handler runs up to the await of the fetch
ParReceive(k) ==
  /\ builds[k].pc = "idle"
  /\ LET r == builds[k]
         w == resolveWindow(r.entry, r.args, clock)
     IN builds' =
          [builds EXCEPT ![k] =
             IF ServerOf(r.entry) \in {"word", "index"}
             THEN [r EXCEPT !.pc = "fetching"]
             ELSE [r EXCEPT !.pc = "fetching", !.now = clock,
                            !.startDate = w[1], !.endDate = w[2]]]
  /\ UNCHANGED <<clock, files, riskData, storeOp>>
  /\ UNCHANGED requestVars
  /\ UNCHANGED pureVars

\* time passes while a request is in flight
ParTick ==
  /\ \E k \in DOMAIN builds : builds[k].pc \notin {"idle", "responded", "closed"}
  /\ clock < Midnight + MaxTicks
  /\ clock' = clock + 1
  /\ UNCHANGED <<builds, files, riskData, storeOp>>
  /\ UNCHANGED requestVars
  /\ UNCHANGED pureVars

\* the fetch of request k returns: the handler categorizes the list and
\* builds the document; the Tavant and word handlers name the report file
\* here (Date.now()), before the await of the serialisation
ParFetchOk(k) ==
  /\ builds[k].pc = "fetching"
  /\ \E l \in ListsOver(ParIssues) :
       LET r == builds[k]
           srv == ServerOf(r.entry)
           list == IF srv = "index" THEN fetchJiraProject(l)
                   ELSE fetchJiraIssues(srv, l)
           sd == IF srv = "word"
                 THEN addDays(clock, -windowDays(r.args.period))
                 ELSE r.startDate
           ed == IF srv = "word"
                 THEN addDays(clock, windowDays(r.args.period))
                 ELSE r.endDate
           b == IF srv = "index" THEN EmptyBuckets
                ELSE categorize(srv, list, r.args.period, sd, ed, clock)
           risk == riskArgument(r.entry, r.args.includeRisks, riskData)
       IN builds' =
            [builds EXCEPT
               ![k] = [r EXCEPT
                         !.issues = list,
                         !.startDate = sd,
                         !.endDate = ed,
                         !.catNow = IF srv = "index" THEN NoDate ELSE clock,
                         !.report = IF srv = "index"
                                    THEN generatePPTX(list, risk)
                                    ELSE render(srv, b, risk),
                         !.file = IF srv \in {"word", "tavant"}
                                  THEN ReportFile(srv, r.args.period, clock)
                                  ELSE NoFile,
                         !.response = IF srv = "standalone" THEN "ok"
                                      ELSE r.response,
                         !.pc = IF srv = "standalone" THEN "responded"
                                ELSE "writing"],
               ![InvocationOf(k)].buckets = b]
  /\ UNCHANGED <<clock, files, riskData, storeOp>>
  /\ UNCHANGED requestVars
  /\ UNCHANGED pureVars

\* the fetch of request k fails: the catch answers the error
ParFetchFail(k) ==
  /\ builds[k].pc = "fetching"
  /\ builds' = [builds EXCEPT ![k].pc = "responded", ![k].response = "error"]
  /\ UNCHANGED <<clock, files, riskData, storeOp>>
  /\ UNCHANGED requestVars
  /\ UNCHANGED pureVars

\* a serialisation that reads the risk store again when it resolves
ParWriteRerender(k) ==
  /\ builds[k].pc = "writing"
  /\ LET r == builds[k]
         risk == riskArgument(r.entry, r.args.includeRisks, riskData)
         path == IF r.entry = "index.rest_generate_pptx"
                 THEN ReportFile("index", r.args.period, clock)
                 ELSE r.file
     IN /\ builds' =
             [builds EXCEPT
                ![k].report = IF ServerOf(r.entry) = "index"
                              THEN generatePPTX(r.issues, risk)
                              ELSE render(ServerOf(r.entry), r.buckets, risk),
                ![k].file = path,
                ![k].response = "ok",
                ![k].pc = IF r.entry \in StreamingEntries THEN "streaming"
                          ELSE "responded"]
        /\ files' = IF r.entry = "index.generate_pptx_report" THEN files
                    ELSE writeFile(files, path, k)
  /\ UNCHANGED <<clock, riskData, storeOp>>
  /\ UNCHANGED requestVars
  /\ UNCHANGED pureVars

\* the serialisation of request k's document resolves: the file is written
\* (index.js names it here); the REST handlers start streaming it, the
\* tools answer with the download link
ParWrite(k) ==
  /\ builds[k].pc = "writing"
  /\ LET r == builds[k]
         path == IF r.entry = "index.rest_generate_pptx"
                 THEN ReportFile("index", r.args.period, clock)
                 ELSE r.file
     IN /\ builds' =
             [builds EXCEPT
                ![k].file = path,
                ![k].response = "ok",
                ![k].pc = IF r.entry \in StreamingEntries THEN "streaming"
                          ELSE "responded"]
        /\ files' = IF r.entry = "index.generate_pptx_report" THEN files
                    ELSE writeFile(files, path, k)
  /\ UNCHANGED <<clock, riskData, storeOp>>
  /\ UNCHANGED requestVars
  /\ UNCHANGED pureVars

\* the stream of request k's file ends; index.js unlinks the file
ParStreamEnd(k) ==
  /\ builds[k].pc = "streaming"
  /\ builds' = [builds EXCEPT ![k].pc = "closed"]
  /\ files' = IF builds[k].entry = "index.rest_generate_pptx"
              THEN unlink(files, builds[k].file)
              ELSE files
  /\ UNCHANGED <<clock, riskData, storeOp>>
  /\ UNCHANGED requestVars
  /\ UNCHANGED pureVars

NextPar ==
  \/ \E k \in DOMAIN builds : ParReceive(k)
  \/ ParTick
  \/ \E k \in DOMAIN builds : ParFetchOk(k)
  \/ \E k \in DOMAIN builds : ParFetchFail(k)
  \/ \E k \in DOMAIN builds : ParWrite(k)
  \/ \E k \in DOMAIN builds : ParStreamEnd(k)

SpecPar == InitPar /\ [][NextPar]_vars

(***************************************************************************)
(* Vocabulary of the properties about requests served side by side         *)
(***************************************************************************)
\* request k has categorized its issue list
Categorized(k) ==
  /\ builds[k].pc \in {"writing", "streaming", "responded", "closed"}
  /\ builds[k].response # "error"
  /\ ServerOf(builds[k].entry) # "index"

\* the buckets request k yields when it runs alone: the categorizer applied
\* to its own issue list, its own window and its own 'now'
BucketsAlone(k) ==
  LET r == builds[k]
  IN categorize(ServerOf(r.entry), r.issues, r.args.period,
                r.startDate, r.endDate, r.catNow)

\* request k was in flight while request j was
Interleaved(j, k) ==
  /\ builds[j].now < builds[k].catNow
  /\ builds[k].now < builds[j].catNow

UploadEntries ==
  {"tavant.upload_risk_file", "tavant.rest_upload_risk",
   "index.upload_risk_file", "index.rest_upload_risk"}

ClearEntries == {"tavant.rest_delete_risks", "index.rest_delete_risks"}

\* the sheets of the workbooks uploaded while a report is built
StoreSheets ==
  {<<[Description |-> "r", Owner |-> "", TargetDate |-> "", Status |-> ""]>>,
   <<[Description |-> "r", Owner |-> "Bo", TargetDate |-> "Q3",
      Status |-> "Done"],
     [Description |-> "r", Owner |-> "", TargetDate |-> "", Status |-> ""]>>}

\* base64Data of an upload: left out, not a workbook, or a workbook
UploadData ==
  {[kind |-> "missing"], [kind |-> "corrupt"]}
  \cup {[kind |-> "sheet", rows |-> rows] : rows \in StoreSheets}

\* the filename of an upload: given, or left out
UploadNames == {"q3.xlsx", Absent}

\* a parse that never fails: a buffer that is no workbook parses to no rows
parseExcelLenient(d) ==
  IF d.kind = "sheet" THEN [success |-> TRUE, data |-> d.rows]
  ELSE [success |-> TRUE, data |-> <<>>]

\* parseExcel: XLSX.read throws on a buffer that is no workbook
parseExcel(d) ==
  IF d.kind = "sheet" THEN [success |-> TRUE, data |-> d.rows]
  ELSE [success |-> FALSE, data |-> <<>>]

\* base64Data: z.string() in the tools, if (!base64Data) in the REST
\* handlers: a request without it is answered before parseExcel is called
base64DataMissing(d) == d.kind = "missing"

\* filename || "risk.xlsx" (index.js POST /api/upload-risk passes filename
\* as it is)
uploadFilename(e, name) ==
  IF e = "index.rest_upload_risk" THEN name
  ELSE IF name = Absent THEN "risk.xlsx" ELSE name

\* one request to one server process, with the store in use
InitStore ==
  /\ RequestIdle
  /\ server \in StoreServers
  /\ builds \in [1..1 -> UNION {{IdleBuild(e, a) :
                                   a \in ParArgsOf(e, {"weekly"},
                                                   IncludeRisksValues)} :
                                e \in ParEntriesOf(server)}]
  /\ clock = Midnight
  /\ files = {}
  /\ riskData = EmptyRiskData
  /\ storeOp = NoStoreOp
  /\ adf = NoDoc
  /\ text = <<>>
  /\ rpcRequest = NoRpc
  /\ rpcResponse = NoRpc

\* upload_risk_file and POST /api/upload-risk
StoreUpload ==
  /\ \E e \in UploadEntries : \E d \in UploadData : \E name \in UploadNames :
       LET parsed == parseExcel(d)
           ok == ~base64DataMissing(d) /\ parsed.success
       IN /\ ServerOf(e) = server
          /\ storeOp' = [op |-> "upload", via |-> e, data |-> d,
                         filename |-> name, at |-> clock,
                         reply |-> IF ok THEN "ok" ELSE "rejected"]
          /\ riskData' = IF ok
                         THEN uploadedRiskData(clock, uploadFilename(e, name),
                                               parsed.data)
                         ELSE riskData
  /\ UNCHANGED <<builds, clock, files>>
  /\ UNCHANGED requestVars
  /\ UNCHANGED pureVars

\* DELETE /api/risks
StoreClear ==
  /\ \E e \in ClearEntries :
       /\ ServerOf(e) = server
       /\ storeOp' = [op |-> "clear", via |-> e, at |-> clock, reply |-> "ok"]
  /\ riskData' = EmptyRiskData
  /\ UNCHANGED <<builds, clock, files>>
  /\ UNCHANGED requestVars
  /\ UNCHANGED pureVars

NextStore ==
  \/ NextPar
  \/ StoreUpload
  \/ StoreClear

SpecStore == InitStore /\ [][NextStore]_vars

(***************************************************************************)
(* Vocabulary of the properties about the risk store                       *)
(***************************************************************************)
\* request k has built its document
Rendered(k) == builds[k].report # NoReport

IncludesRisks(k) ==
  shouldIncludeRisks(builds[k].entry, builds[k].args.includeRisks)

\* the risk count and the risk rows of request k's document are those of
\* version v of the risk table
RisksFromVersion(k, v) ==
  IF ServerOf(builds[k].entry) = "index"
  THEN /\ builds[k].report.riskCount = Len(v.risks)
       /\ builds[k].report.risks = Take(v.risks, 6)
  ELSE builds[k].report.risks = riskTable(builds[k].buckets.risks, v)

(***************************************************************************)
(* C22: within one report build the risk store is read once, as a single   *)
(* snapshot: the risk count and every risk row of the document come from   *)
(* the version the store holds when the document is built, and uploads and *)
(* clears that arrive later, while the build is still in flight, do not    *)
(* change the document.                                                    *)
(***************************************************************************)
C22_RiskStoreReadOnce ==
  [][\A k \in DOMAIN builds :
       /\ (~Rendered(k) /\ Rendered(k)' /\ IncludesRisks(k))
            => \E v \in {riskData} :
                 /\ builds'[k].report.risks
                      = IF ServerOf(builds[k].entry) = "index"
                        THEN Take(v.risks, 6)
                        ELSE riskTable(builds'[k].buckets.risks, v)
                 /\ ServerOf(builds[k].entry) = "index"
                      => builds'[k].report.riskCount = Len(v.risks)
       /\ Rendered(k) => builds'[k].report = builds[k].report]_vars

\* a document built from a sheet that was uploaded after the request
\* arrived, with the store replaced again before the file is written
C22_Witness ==
  /\ DOMAIN builds = {1}
  /\ builds[1].pc = "writing"
  /\ IncludesRisks(1)
  /\ \E rows \in StoreSheets :
       /\ Len(rows) = 2
       /\ RisksFromVersion(1, uploadedRiskData(clock, "q3.xlsx", rows))
  /\ Len(riskData.risks) = 1
  /\ storeOp.op = "upload"

(***************************************************************************)
(* Vocabulary of the properties about empty sections                       *)
(***************************************************************************)
\* what the report shows for a bucket without entries: nothing at all, a
\* line of text that says so, or blank table rows
EmptyTreatment(name) ==
  IF report.kind = "docx"
  THEN IF \E k \in 1..Len(report.sections) :
            report.sections[k].title = SectionTitle(name)
       THEN "rendered" ELSE "omitted"
  ELSE LET rows == report[name]
       IN IF Len(rows) = 0 THEN "omitted"
          ELSE IF \A k \in 1..Len(rows) : "text" \in DOMAIN rows[k]
               THEN "placeholder"
               ELSE IF \A k \in 1..Len(rows) : rows[k] = BlankRow
                    THEN "blank" ELSE "rendered"

(***************************************************************************)
(* C23: within one report all sections with zero rows are treated the same *)
(* way: all of them omitted, or all of them rendered with a placeholder.   *)
(***************************************************************************)
C23_EmptySectionsConsistent ==
  (pc = "return" /\ report.kind \in {"docx", "pptx"}) =>
    /\ \A name \in BucketNames :
         Len(buckets[name]) = 0 =>
           EmptyTreatment(name) \in {"omitted", "placeholder"}
    /\ \A a, b \in BucketNames :
         (Len(buckets[a]) = 0 /\ Len(buckets[b]) = 0) =>
           EmptyTreatment(a) = EmptyTreatment(b)

(***************************************************************************)
(* C24: a report requested with includeRisks = false shows no row of the   *)
(* risk store, whatever the store holds; a report requested without        *)
(* includeRisks, or with includeRisks = true, shows the risk table the     *)
(* store holds when the document is built.                                 *)
(***************************************************************************)
C24_IncludeRisksHonoured ==
  [][\A k \in DOMAIN builds :
       (~Rendered(k) /\ Rendered(k)') =>
         LET r == builds'[k]
             shown == IF r.args.includeRisks = "false" THEN NullRisk
                      ELSE riskData
         IN IF ServerOf(r.entry) = "index"
            THEN /\ r.report.riskCount = Len(shown.risks)
                 /\ r.report.risks = Take(shown.risks, 6)
            ELSE r.report.risks = riskTable(r.buckets.risks, shown)]_vars

\* a Tavant deck built with includeRisks = false while the store holds a
\* sheet uploaded before the deck was built: only blank rows and Jira rows
C24_Witness ==
  /\ DOMAIN builds = {1}
  /\ server = "tavant"
  /\ Rendered(1)
  /\ builds[1].args.includeRisks = "false"
  /\ Len(riskData.risks) > 0
  /\ riskData.lastUpdated < builds[1].catNow
  /\ builds[1].report.risks = riskTable(builds[1].buckets.risks, NullRisk)
  /\ builds[1].report.risks # riskTable(builds[1].buckets.risks, riskData)

(***************************************************************************)
(* extractDescription: the plain text of a rich-text (ADF) description.    *)
(* A string is the sequence of its characters.  A content field is a       *)
(* record: array tells whether the field holds an array, items are its     *)
(* elements.  The function exists in four variants:                        *)
(*   "word"        part_000:73       "unified"  part_001:47                *)
(*   "standalone"  part_001:335      "tavant"   part_001:1077              *)
(***************************************************************************)
AdfServers == {"word", "unified", "standalone", "tavant"}

\* the most blocks of a document and the most inline nodes of a block
MaxBlocks == 2
MaxRuns == 2

Strings == {<<"a">>, <<" ", "b">>}
InlineTypes == {"text", "emoji"}
BlockTypes == {"paragraph", "heading"}

NoContent == [array |-> FALSE, items |-> <<>>]

ArrayOf(universe, max) ==
  {[array |-> TRUE, items |-> l] :
     l \in UNION {[1..n -> universe] : n \in 0..max}}

InlineNodes == [type : InlineTypes, text : Strings]

Blocks == [type : BlockTypes, content : {NoContent} \cup ArrayOf(InlineNodes, MaxRuns)]

AdfNull == [type |-> "null"]

\* description fields: null, an object without a content array, a document
Docs ==
  {AdfNull} \cup [type : {"doc"}, content : {NoContent} \cup ArrayOf(Blocks, MaxBlocks)]

WhiteSpace == {" ", "\n"}

RECURSIVE trimStart(_)
trimStart(s) ==
  IF Len(s) > 0 /\ s[1] \in WhiteSpace THEN trimStart(Tail(s)) ELSE s

RECURSIVE trimEnd(_)
trimEnd(s) ==
  IF Len(s) > 0 /\ s[Len(s)] \in WhiteSpace
  THEN trimEnd(SubSeq(s, 1, Len(s) - 1)) ELSE s

\* String.prototype.trim
trim(s) == trimEnd(trimStart(s))

\* Array.prototype.join
RECURSIVE join(_, _)
join(ss, sep) ==
  IF Len(ss) = 0 THEN <<>>
  ELSE IF Len(ss) = 1 THEN ss[1]
       ELSE ss[1] \o sep \o join(Tail(ss), sep)

\* Array.prototype.flatMap over arrays already mapped
RECURSIVE flat(_)
flat(ss) == IF Len(ss) = 0 THEN <<>> ELSE ss[1] \o flat(Tail(ss))

\* the texts pushed for one block: those of its text nodes, when the block
\* is a paragraph with content
textsOfBlock(b) ==
  IF b.type = "paragraph" /\ b.content.array
  THEN LET runs == SelectSeq(b.content.items, LAMBDA c : c.type = "text")
       IN [k \in 1..Len(runs) |-> runs[k].text]
  ELSE <<>>

\* part_000: paragraph ? (b.content || []).map(c => text ? c.text : "") : []
mappedBlock(b) ==
  IF b.type = "paragraph"
  THEN [k \in 1..Len(b.content.items) |->
          IF b.content.items[k].type = "text" THEN b.content.items[k].text
          ELSE <<>>]
  ELSE <<>>

\* part_001:47: text += item.text for each text node, then text += "\n"
appendedBlock(b) ==
  IF b.type = "paragraph" /\ b.content.array
  THEN join(textsOfBlock(b), <<>>) \o <<"\n">>
  ELSE <<>>

extractDescription(srv, d) ==
  IF d.type = "null" \/ ~d.content.array THEN <<>>
  ELSE LET blocks == d.content.items
       IN IF srv = "word"
          THEN trim(join(flat([k \in 1..Len(blocks) |->
                                 mappedBlock(blocks[k])]), <<>>))
          ELSE IF srv = "unified"
          THEN trim(flat([k \in 1..Len(blocks) |-> appendedBlock(blocks[k])]))
          ELSE IF srv = "standalone"
          THEN trim(join(flat([k \in 1..Len(blocks) |->
                                 textsOfBlock(blocks[k])]), <<" ">>))
          ELSE trim(join(flat([k \in 1..Len(blocks) |->
                                 textsOfBlock(blocks[k])]), <<>>))

InitAdf ==
  /\ pc = "call"
  /\ server \in AdfServers
  /\ entry = "none"
  /\ args = NoArgs
  /\ clock = Midnight
  /\ now = NoDate
  /\ startDate = NoDate
  /\ endDate = NoDate
  /\ fetched = <<>>
  /\ issues = <<>>
  /\ catNow = NoDate
  /\ buckets = EmptyBuckets
  /\ report = NoReport
  /\ files = {}
  /\ riskData = EmptyRiskData
  /\ response = "none"
  /\ fetches = 0
  /\ builds = NoBuilds
  /\ storeOp = NoStoreOp
  /\ adf \in Docs
  /\ text = <<>>
  /\ rpcRequest = NoRpc
  /\ rpcResponse = NoRpc

\* description: extractDescription(f.description)
ExtractDescriptionCall ==
  /\ pc = "call"
  /\ text' = extractDescription(server, adf)
  /\ pc' = "return"
  /\ UNCHANGED <<server, entry, args, clock, now, startDate, endDate,
                 fetched, issues, catNow, buckets, report, files, riskData,
                 response, fetches, builds, storeOp, adf, rpcRequest,
                 rpcResponse>>

NextAdf == ExtractDescriptionCall

SpecAdf == InitAdf /\ [][NextAdf]_vars

(***************************************************************************)
(* Vocabulary of the properties about extractDescription                   *)
(***************************************************************************)
\* the texts of the text runs of the paragraph blocks, in document order
ParagraphRuns(d) ==
  LET paragraphs == SelectSeq(d.content.items,
                              LAMBDA b : b.type = "paragraph")
  IN flat([k \in 1..Len(paragraphs) |->
             LET runs == SelectSeq(paragraphs[k].content.items,
                                   LAMBDA c : c.type = "text")
             IN [j \in 1..Len(runs) |-> runs[j].text]])

C26_StoreHoldsLastUpload ==
  [][/\ storeOp' = NoStoreOp => riskData' = EmptyRiskData
     /\ IF storeOp' = storeOp THEN riskData' = riskData
        ELSE IF storeOp'.op = "clear"
        THEN /\ riskData'.risks = <<>>
             /\ riskData'.headers = {}
             /\ riskData'.filename = Absent
             /\ riskData'.lastUpdated = NoDate
        ELSE IF storeOp'.data.kind = "sheet"
        THEN /\ riskData'.risks = storeOp'.data.rows
             /\ riskData'.headers = DOMAIN storeOp'.data.rows[1]
             /\ storeOp'.filename # Absent
                  => riskData'.filename = storeOp'.filename
             /\ riskData'.lastUpdated = storeOp'.at
        ELSE riskData' = riskData]_vars

\* the store still holds the two rows of an earlier upload after an upload
\* that was rejected
C26_Witness ==
  /\ storeOp.op = "upload"
  /\ storeOp.reply = "rejected"
  /\ storeOp.data.kind = "corrupt"
  /\ Len(riskData.risks) = 2
  /\ riskData.filename = "q3.xlsx"

(***************************************************************************)
(* C27: within one weekly or biweekly report request the instant the       *)
(* categorizer uses as 'now' is the instant from which the request's       *)
(* window was computed, although the fetch is awaited in between: the      *)
(* window of the request is the N-day window of the categorizer's 'now'.   *)
(***************************************************************************)
C27_CategorizerNowIsWindowNow ==
  (Answered /\ TakesPeriod /\ args.period \in {"weekly", "biweekly"}) =>
    /\ catNow = RequestNow
    /\ server # "word" =>
         <<startDate, endDate>> = resolveWindow(entry, args, catNow)

(***************************************************************************)
(* The risk table of the Tavant executive summary, for risks buckets and   *)
(* uploaded sheets longer than the table                                   *)
(***************************************************************************)
\* the most risks of a project and the most rows of an uploaded sheet
MaxRisks == 4
MaxSheetRows == 4

\* open stories that the Tavant categorizer places in risks
RiskIssues ==
  [key : 1..MaxRisks, description : {"x"}, statusCategory : {"new"},
   issueType : {"Story"}, priority : {"High"}, assignee : {"Ann"},
   resolutiondate : {NoDate}, duedate : {NoDate, addDays(Midnight, 10)}]

InitRisk ==
  /\ pc = "call"
  /\ server \in Servers
  /\ entry = "none"
  /\ args = NoArgs
  /\ clock = Midnight
  /\ now = NoDate
  /\ startDate = addDays(Midnight, -WeekDays)
  /\ endDate = addDays(Midnight, WeekDays)
  /\ \E n \in 0..MaxRisks :
       /\ fetched \in [1..n -> RiskIssues]
       /\ \A k \in 1..n : fetched[k].key = k
  /\ issues = fetchJiraIssues(server, fetched)
  /\ catNow = NoDate
  /\ buckets = EmptyBuckets
  /\ report = NoReport
  /\ files = {}
  /\ \E m \in 0..MaxSheetRows :
       \E rows \in [1..m -> RiskRows] :
         riskData = IF m = 0 THEN EmptyRiskData
                    ELSE uploadedRiskData(Midnight, "risk.xlsx", rows)
  /\ response = "none"
  /\ fetches = 0
  /\ RestIdle

SpecRisk == InitRisk /\ [][NextCat]_vars

(***************************************************************************)
(* Vocabulary of the properties about the risk table                       *)
(***************************************************************************)
NonBlankRiskRows == SelectSeq(report.risks, LAMBDA row : row # BlankRow)

\* row is the table row of row r of the uploaded sheet
IsFileRow(row, r) ==
  /\ row.description = r.Description
  /\ "status" \in DOMAIN row
  /\ row.status = IF r.Status = "" THEN "Open" ELSE r.Status

\* row is the table row of issue i of the risks bucket
IsJiraRow(row, i) ==
  /\ row.description = i.description
  /\ row.owner = i.assignee
  /\ row.targetDate = fmtDate(i.dueDate)
  /\ "status" \notin DOMAIN row

(***************************************************************************)
(* C28: in the risk table of the Tavant executive summary there are at     *)
(* most 5 non-blank rows below the header, the rows of the uploaded sheet  *)
(* (at most 3) come before the Jira risk rows (at most 3), blank rows come *)
(* last, and the '#' column of the non-blank rows counts 1, 2, ..., n.     *)
(***************************************************************************)
C28_RiskTableNumbered ==
  (pc = "return" /\ server = "tavant") =>
    LET rows == NonBlankRiskRows
        n == Len(rows)
    IN /\ n <= 5
       /\ \A k \in 1..n : report.risks[k] = rows[k]
       /\ \A k \in 1..n : rows[k].num = k
       /\ \E f \in 0..3 : \E j \in 0..3 :
            /\ n = f + j
            /\ f <= Len(riskData.risks)
            /\ j <= Len(buckets.risks)
            /\ \A k \in 1..f : IsFileRow(rows[k], riskData.risks[k])
            /\ \A k \in 1..j : IsJiraRow(rows[f + k], buckets.risks[k])

\* a table filled by three sheet rows and two of four Jira risks
C28_Witness ==
  /\ pc = "return"
  /\ server = "tavant"
  /\ Len(riskData.risks) = 4
  /\ Len(buckets.risks) = 4
  /\ Len(NonBlankRiskRows) = 5
  /\ "status" \in DOMAIN report.risks[3]
  /\ "status" \notin DOMAIN report.risks[4]
  /\ report.risks[5].num = 5

(***************************************************************************)
(* Vocabulary of the properties about report files                         *)
(***************************************************************************)
\* request k has named its report file and has not finished with it
HoldsFile(k) ==
  /\ builds[k].file # NoFile
  /\ builds[k].pc \in {"writing", "streaming"}

(***************************************************************************)
(* C29: requests served side by side never share a report file: two        *)
(* requests that are both writing or streaming have different file paths,  *)
(* and while a request streams its file, the file at its path exists and   *)
(* holds the document of that request.                                     *)
(***************************************************************************)
C29_ReportFilesNotShared ==
  /\ \A j \in DOMAIN builds : \A k \in DOMAIN builds :
       (j # k /\ HoldsFile(j) /\ HoldsFile(k)) =>
         builds[j].file # builds[k].file
  /\ \A k \in DOMAIN builds :
       builds[k].pc = "streaming" =>
         WrittenFile(builds[k].file, k) \in files

(***************************************************************************)
(* The custom POST /mcp endpoint of the standalone server                  *)
(***************************************************************************)
\* JSON-RPC error codes and HTTP statuses of the endpoint
MethodNotFound == -32601
InternalError == -32603
Unauthorized == -32001
StatusOk == 200
StatusUnauthorized == 401
StatusServerError == 500

\* the values of body.id, as JSON text; "undefined" is a body without id
RpcIds == {"1", "0", "\"a\"", "\"\"", "null", "undefined"}

\* the values JavaScript's || replaces by its right operand
Falsy(v) == v \in {"0", "\"\"", "null", "undefined", "false"}

\* the methods the switch of POST /mcp has a case for
RpcMethods ==
  {"initialize", "notifications/initialized", "tools/list", "tools/call",
   "ping"}

\* the names the switch of handleMcpTool has a case for
McpToolNames ==
  {"list_projects", "search_issues", "get_project_issues", "get_issue",
   "create_issue", "get_status_report_data"}

\* the requests sent: with or without the API key, with or without a body
RpcRequests ==
  [key : {"valid", "invalid"}, body : {"object", "undefined"}, id : RpcIds,
   method : RpcMethods \cup {"resources/list", "undefined"},
   name : {"list_projects", "get_status_report_data", "drop_project",
           "undefined"}]

\* var id = body.id || null
responseId(v) == IF Falsy(v) THEN "null" ELSE v

\* the result of a tools/call: the tool's answer as text
toolContent(success) == [kind |-> "content", success |-> success]

\* the result of the other methods
plainResult(method) ==
  [kind |-> IF method = "initialize" THEN "serverInfo"
            ELSE IF method = "tools/list" THEN "tools" ELSE "empty",
   success |-> "none"]

InitRpc ==
  /\ RequestIdle
  /\ server = "standalone"
  /\ clock = Midnight
  /\ files = {}
  /\ riskData = EmptyRiskData
  /\ builds = NoBuilds
  /\ storeOp = NoStoreOp
  /\ adf = NoDoc
  /\ text = <<>>
  /\ rpcRequest \in RpcRequests
  /\ rpcResponse = NoRpc

\* the /mcp middleware answers a request without the API key
RpcUnauthorized ==
  /\ pc = "idle"
  /\ rpcRequest.key # "valid"
  /\ rpcResponse' = [status |-> StatusUnauthorized, jsonrpc |-> "2.0",
                     error |-> [code |-> Unauthorized], id |-> "null"]
  /\ pc' = "responded"
  /\ UNCHANGED <<server, entry, args, clock, now, startDate, endDate, fetched,
                 issues, catNow, buckets, report, files, riskData, response,
                 fetches, builds, storeOp, adf, text, rpcRequest>>

\* POST /mcp without a parsed body: body.id throws, the catch answers
RpcThrows ==
  /\ pc = "idle"
  /\ rpcRequest.key = "valid"
  /\ rpcRequest.body = "undefined"
  /\ rpcResponse' = [status |-> StatusServerError, jsonrpc |-> "2.0",
                     error |-> [code |-> InternalError], id |-> "null"]
  /\ pc' = "responded"
  /\ UNCHANGED <<server, entry, args, clock, now, startDate, endDate, fetched,
                 issues, catNow, buckets, report, files, riskData, response,
                 fetches, builds, storeOp, adf, text, rpcRequest>>

\* POST /mcp: the switch on method, up to the answer or to the await of
\* handleMcpTool
RpcReceive ==
  /\ pc = "idle"
  /\ rpcRequest.key = "valid"
  /\ rpcRequest.body = "object"
  /\ LET base == [status |-> StatusOk, jsonrpc |-> "2.0",
                  id |-> responseId(rpcRequest.id)]
     IN IF rpcRequest.method = "tools/call"
        THEN /\ rpcResponse' = base
             /\ pc' = "tool"
        ELSE /\ rpcResponse' =
                  IF rpcRequest.method \in RpcMethods
                  THEN base @@ [result |-> plainResult(rpcRequest.method)]
                  ELSE base @@ [error |-> [code |-> MethodNotFound]]
             /\ pc' = "responded"
  /\ UNCHANGED <<server, entry, args, clock, now, startDate, endDate, fetched,
                 issues, catNow, buckets, report, files, riskData, response,
                 fetches, builds, storeOp, adf, text, rpcRequest>>

\* handleMcpTool resolves: every case catches its errors and returns
\* success: false, the default case returns success: false
RpcToolReturn ==
  /\ pc = "tool"
  /\ \E success \in {"true", "false"} :
       /\ rpcRequest.name \notin McpToolNames => success = "false"
       /\ rpcResponse' = rpcResponse @@ [result |-> toolContent(success)]
  /\ pc' = "responded"
  /\ UNCHANGED <<server, entry, args, clock, now, startDate, endDate, fetched,
                 issues, catNow, buckets, report, files, riskData, response,
                 fetches, builds, storeOp, adf, text, rpcRequest>>

NextRpc ==
  \/ RpcUnauthorized
  \/ RpcThrows
  \/ RpcReceive
  \/ RpcToolReturn

SpecRpc == InitRpc /\ [][NextRpc]_vars

(***************************************************************************)
(* Vocabulary of the properties about POST /mcp                            *)
(***************************************************************************)
\* the request passed the middleware, carried a body and was answered
RpcAnswered ==
  /\ pc = "responded"
  /\ rpcRequest.key = "valid"
  /\ rpcRequest.body = "object"

(***************************************************************************)
(* C30: every request accepted by POST /mcp is answered with the id of     *)
(* the request, whatever its value (0 and the empty string included), and  *)
(* with exactly one of result and error: error code -32601 for a method    *)
(* other than initialize, notifications/initialized, tools/list,           *)
(* tools/call and ping, a result otherwise; an unknown tool name yields a  *)
(* result with success = false.                                            *)
(***************************************************************************)
C30_RpcResponseMatchesRequest ==
  RpcAnswered =>
    /\ rpcRequest.id # "undefined" => rpcResponse.id = rpcRequest.id
    /\ ("result" \in DOMAIN rpcResponse) # ("error" \in DOMAIN rpcResponse)
    /\ IF rpcRequest.method \in RpcMethods
       THEN "result" \in DOMAIN rpcResponse
       ELSE /\ "error" \in DOMAIN rpcResponse
            /\ rpcResponse.error.code = MethodNotFound
    /\ (rpcRequest.method = "tools/call"
        /\ rpcRequest.name \notin McpToolNames) =>
         rpcResponse.result.success = "false"

====
